---- MODULE Spec2Model ----
(***************************************************************************)
(* A model of webgraph-algo-rs: the parallel breadth-first visit, the      *)
(* graph of strongly connected components, the ExactSumSweep computer,     *)
(* HyperBall with its HyperLogLog counters, the algorithms on the          *)
(* sequential depth-first visit, and the sequential breadth-first visit.   *)
(* Each subsystem has its own specification (SpecBFV, SpecSCC, SpecESS,    *)
(* SpecRadius, SpecDistPivot, SpecHB, SpecHBApi, SpecHLL, SpecBuilder,     *)
(* SpecDFV, SpecSeq) over the shared variables; the variables of the       *)
(* other subsystems stay at their idle values.                             *)
(***************************************************************************)
EXTENDS Integers, Sequences, FiniteSets, TLC

VARIABLES
    graph,            \* the immutable graph: [n |-> number of nodes, arcs |-> set of <<u, v>>]
    \* ---- parallel breadth-first visit (ParallelBreadthFirstVisitFastCB)
    granularity,      \* nodes per chunk of the frontier
    start,            \* start offset of a whole-graph visit
    rejected,         \* the filter: the <<node, parent>> candidates it rejects
    visited,          \* the AtomicBitVec of visited nodes
    curr_frontier,    \* nodes of the current frontier not yet handed to a thread
    next_frontier,    \* nodes pushed for the next level
    distance,         \* distance passed to the callbacks of the level being expanded
    root,             \* root of the running visit_from_node
    bfvPc,            \* "idle" | "level"
    task,             \* per thread: the <<parent, succ>> arcs of its chunk still to examine
    index,            \* loop index of visit(): 0..n while a whole-graph visit runs, -1 otherwise
    cbCount,          \* observer: callbacks per node since the last reset
    cbDist,           \* observer: distance passed to the last callback of a node
    cbParent,         \* observer: parent passed to the last callback of a node
    rootSeq,          \* observer: the roots passed to visit_from_node since the last reset
    wholeFresh,       \* observer: the running whole-graph visit began on a reset visit
    \* ---- graph of the strongly connected components (SccGraph)
    scc,              \* the component map: [num |-> number of components, comp |-> node -> id]
    sccPc,            \* "scan" | "flatten" | "built"
    sccC,             \* the component find_edges_through_scc is scanning
    sccPending,       \* the vertices of that component not yet scanned
    best,             \* [best_start, best_end, child_components] of the scan
    scc_graph,        \* per scanned component, its connections in discovery order
    segments_offset,  \* SccGraph::segments_offset
    data,             \* SccGraph::data
    childrenOut,      \* the last answer of children(): <<component, connections>>
    \* ---- ExactSumSweep (DirExactSumSweepComputer)
    ess,              \* the fields of the computer
    essSteps,         \* how many steps compute() has taken
    visits,           \* what the visits report: the distances [from][to] on the graph (fwd), on
                      \* the transpose (bwd), and on both within a component (fwdIn, bwdIn)
    essPc,            \* "new" | "heuristic" | "loop" | "done" | "panic": the position in compute()
    heurI,            \* the loop index of sum_sweep_heuristic
    points,           \* the scores of the five moves, as fractions <<numerator, denominator>>
    missing_nodes,    \* missing_nodes of compute()
    last,             \* observer: the move last made, its start vertex, whether that was complete
    \* ---- HyperBall
    hbIn,             \* what the builder was given: transpose or not, the hash of every node
    hb,               \* the fields of HyperBall
    hbCtx,            \* iteration_context
    hbWorker,         \* per thread: its position in parallel_task and its locals
    hbRun,            \* the position in run(): its arguments, its loop index, why it stopped
    hbObs,            \* observer: the current bank when the iteration began, the workers that
                      \* wrote each node in the parallel phase, the modes of the iterations
                      \* and the modified counters each of them began with
    \* ---- HyperLogLog counter arrays (HyperLogLogCounterArray, HyperLogLogCounter)
    hllBits,          \* per array, the bits of its backend: the set of the positions of the ones
    hllCounter,       \* per handle, the HyperLogLogCounter: its array, its index, its cached_bits
    hllCall,          \* observer: the last call, what it returned, the state it was made in,
                      \* and the same of the call before it
    hllBuilder,       \* a HyperLogLogCounterArrayBuilder: its settings, and what build() made
    \* ---- sequential depth-first visits and the algorithms on them
    dfv,              \* the visit: the graph it runs on, the state of every node, its stack
    dfAlgo,           \* the algorithm that drives the visit: its position and its locals
    \* ---- the radius lock of a backward step or of all_cc_upper_bound
    radius_lock,      \* the content of the RwLock: <<radius_high, radius_vertex>>
    radTask,          \* per node that offers its eccentricity: its position, the eccentricity,
                      \* update_radius
    radSelf,          \* self.radius_high and self.radius_vertex
    radBefore,        \* observer: the same when the step began
    radPc,            \* "idle" | "backward" | "all_cc" | "joined": the step and its position
    \* ---- the sequential breadth-first visit (SingleThreadedBreadthFirstVisit)
    stIter,           \* the iterator: start, cursor, visited, queue
    stPc,             \* "idle" | "iterating" | "visiting" | "returned"
    stOut,            \* observer: the nodes that next() returned, in order, each with whether
                      \* the queue was empty when it was taken
    stNones,          \* observer: how many times next() returned None
    stResult,         \* the result that visit() accumulates: the number of the nodes visited
    \* ---- compute_dist_pivot_from_graph of the ExactSumSweep computer
    dpPivot,          \* pivot: the pivot of every component
    dpIndex,          \* current_index
    dpDist,           \* dist_pivot
    dpEcc,            \* ecc_pivot
    dpWorker,         \* per thread of the broadcast: its pivot index and its visit
    dpObs             \* observer: how many times a pivot index was drawn below pivot.len(),
                      \* how many times dist_pivot was written at a node

bfvVars == <<granularity, start, rejected, visited, curr_frontier, next_frontier, distance,
             root, bfvPc, task, index, cbCount, cbDist, cbParent, rootSeq, wholeFresh>>

sccVars == <<scc, sccPc, sccC, sccPending, best, scc_graph, segments_offset, data, childrenOut>>

essVars == <<ess, essSteps, visits, essPc, heurI, points, missing_nodes, last>>

hbVars == <<hbIn, hb, hbCtx, hbWorker, hbRun, hbObs>>

hllVars == <<hllBits, hllCounter, hllCall, hllBuilder>>

dfVars == <<dfv, dfAlgo>>

radVars == <<radius_lock, radTask, radSelf, radBefore, radPc>>

stVars == <<stIter, stPc, stOut, stNones, stResult>>

dpVars == <<dpPivot, dpIndex, dpDist, dpEcc, dpWorker, dpObs>>

vars == <<graph, bfvVars, sccVars, essVars, hbVars, hllVars, dfVars, radVars, stVars, dpVars>>

(***************************************************************************)
(* Graphs and reference notions                                            *)
(***************************************************************************)
Threads == {"t1", "t2"}

\* a value that no distance takes
Unreachable == 0 - 1

\* Option::None of an optional index
None == 0 - 1

Min2(a, b) == IF a <= b THEN a ELSE b
Max2(a, b) == IF a >= b THEN a ELSE b
SetMin(S) == CHOOSE x \in S : \A y \in S : x <= y
SetMax(S) == CHOOSE x \in S : \A y \in S : y <= x

Nodes(g) == 0 .. (g.n - 1)
SuccSet(g, v) == {w \in Nodes(g) : <<v, w>> \in g.arcs}
PredSet(g, v) == {u \in Nodes(g) : <<u, v>> \in g.arcs}
Transpose(g) == [n |-> g.n, arcs |-> {<<a[2], a[1]>> : a \in g.arcs}]
Outdegree(g, v) == Cardinality(SuccSet(g, v))

RECURSIVE SortedSeq(_)
SortedSeq(S) == IF S = {} THEN <<>>
                ELSE LET m == SetMin(S) IN <<m>> \o SortedSeq(S \ {m})

\* successors are enumerated in increasing order
Successors(g, v) == SortedSeq(SuccSet(g, v))

SubsetsUpTo(S, k) == {T \in SUBSET S : Cardinality(T) <= k}

\* nodes at most d arcs away from r
RECURSIVE Within(_, _, _)
Within(g, r, d) ==
    IF d = 0 THEN {r}
    ELSE LET W == Within(g, r, d - 1)
         IN W \cup {w \in Nodes(g) : \E u \in W : <<u, w>> \in g.arcs}

Reachable(g, r) == Within(g, r, g.n)

\* length of a shortest path from r to v
Dist(g, r, v) ==
    IF v \in Reachable(g, r)
    THEN SetMin({d \in 0 .. g.n : v \in Within(g, r, d)})
    ELSE Unreachable

(***************************************************************************)
(* The idle values of the subsystems: a specification of one subsystem     *)
(* keeps the others there                                                  *)
(***************************************************************************)
BfvParamsIdle ==
    /\ granularity = 1
    /\ start = 0
    /\ rejected = {}

BfvIdle ==
    /\ visited = [v \in Nodes(graph) |-> FALSE]
    /\ curr_frontier = {}
    /\ next_frontier = {}
    /\ distance = 0
    /\ root = 0
    /\ bfvPc = "idle"
    /\ task = [t \in Threads |-> <<>>]
    /\ index = -1
    /\ cbCount = [v \in Nodes(graph) |-> 0]
    /\ cbDist = [v \in Nodes(graph) |-> Unreachable]
    /\ cbParent = [v \in Nodes(graph) |-> Unreachable]
    /\ rootSeq = <<>>
    /\ wholeFresh = FALSE

SccIdle ==
    /\ scc = [num |-> 0, comp |-> <<>>]
    /\ sccPc = "idle"
    /\ sccC = 0
    /\ sccPending = <<>>
    /\ best = [best_start |-> <<>>, best_end |-> <<>>, child_components |-> <<>>]
    /\ scc_graph = <<>>
    /\ segments_offset = <<>>
    /\ data = <<>>
    /\ childrenOut = <<>>

EssIdle ==
    /\ ess = <<>>
    /\ visits = <<>>
    /\ essSteps = 0
    /\ essPc = "idle"
    /\ heurI = 0
    /\ points = <<>>
    /\ missing_nodes = 0
    /\ last = <<>>

HbIdle ==
    /\ hbIn = <<>>
    /\ hb = <<>>
    /\ hbCtx = <<>>
    /\ hbWorker = <<>>
    /\ hbRun = <<>>
    /\ hbObs = <<>>

HllIdle ==
    /\ hllBits = <<>>
    /\ hllCounter = <<>>
    /\ hllCall = <<>>
    /\ hllBuilder = <<>>

DfIdle ==
    /\ dfv = <<>>
    /\ dfAlgo = <<>>

RadIdle ==
    /\ radius_lock = <<>>
    /\ radTask = <<>>
    /\ radSelf = <<>>
    /\ radBefore = <<>>
    /\ radPc = "idle"

StIdle ==
    /\ stIter = <<>>
    /\ stPc = "idle"
    /\ stOut = <<>>
    /\ stNones = 0
    /\ stResult = 0

DpIdle ==
    /\ dpPivot = <<>>
    /\ dpIndex = 0
    /\ dpDist = <<>>
    /\ dpEcc = <<>>
    /\ dpWorker = <<>>
    /\ dpObs = <<>>

OthersIdleBFV == SccIdle /\ EssIdle /\ HbIdle /\ HllIdle /\ DfIdle /\ RadIdle /\ StIdle /\ DpIdle

OthersIdleSCC == BfvIdle /\ BfvParamsIdle /\ EssIdle /\ HbIdle /\ HllIdle /\ DfIdle /\ RadIdle /\ StIdle /\ DpIdle

OthersIdleESS == BfvIdle /\ BfvParamsIdle /\ HbIdle /\ HllIdle /\ DfIdle /\ RadIdle /\ StIdle /\ DpIdle

OthersIdleHB == BfvIdle /\ BfvParamsIdle /\ SccIdle /\ EssIdle /\ HllIdle /\ DfIdle /\ RadIdle /\ StIdle /\ DpIdle

OthersIdleHLL == BfvIdle /\ BfvParamsIdle /\ SccIdle /\ EssIdle /\ HbIdle /\ DfIdle /\ RadIdle /\ StIdle /\ DpIdle

OthersIdleDFV == BfvIdle /\ BfvParamsIdle /\ SccIdle /\ EssIdle /\ HbIdle /\ HllIdle /\ RadIdle /\ StIdle /\ DpIdle

OthersIdleRadius ==
    BfvIdle /\ BfvParamsIdle /\ SccIdle /\ EssIdle /\ HbIdle /\ HllIdle /\ DfIdle /\ StIdle /\ DpIdle

OthersIdleDistPivot ==
    BfvIdle /\ BfvParamsIdle /\ EssIdle /\ HbIdle /\ HllIdle /\ DfIdle /\ RadIdle /\ StIdle

OthersIdleSeq ==
    BfvIdle /\ BfvParamsIdle /\ SccIdle /\ EssIdle /\ HbIdle /\ HllIdle /\ DfIdle /\ RadIdle /\ DpIdle

(***************************************************************************)
(* Parallel breadth-first visit                                            *)
(***************************************************************************)
BfvMaxArcs == 4
MaxGranularity == 2

BfvNodes == 0 .. 3

\* the arcs the visited graphs are made of: a diamond 0 -> {1, 2} -> 3, back arcs, a loop
BfvArcPool == {<<0, 1>>, <<0, 2>>, <<1, 3>>, <<2, 3>>, <<3, 0>>, <<1, 2>>, <<2, 2>>, <<3, 1>>}

BfvGraphs == {[n |-> Cardinality(BfvNodes), arcs |-> A] : A \in SubsetsUpTo(BfvArcPool, BfvMaxArcs)}

\* the filters tried: the always-true one, one rejecting a root, those rejecting one arc into 3
FilterChoices(g) == {{}} \cup {{<<0, 0>>}} \cup {{<<a[2], a[1]>>} : a \in {b \in g.arcs : b[2] = 3}}

filter(node, parent) == <<node, parent>> \notin rejected

OtherThanBFV == <<sccVars, essVars, hbVars, hllVars, dfVars, radVars, stVars, dpVars>>

OtherThanSCC == <<bfvVars, essVars, hbVars, hllVars, dfVars, radVars, stVars, dpVars>>

OtherThanESS == <<bfvVars, sccVars, hbVars, hllVars, dfVars, radVars, stVars, dpVars>>

OtherThanDFV == <<bfvVars, sccVars, essVars, hbVars, hllVars, radVars, stVars, dpVars>>

OtherThanRadius == <<bfvVars, sccVars, essVars, hbVars, hllVars, dfVars, stVars, dpVars>>

OtherThanDistPivot == <<bfvVars, essVars, hbVars, hllVars, dfVars, radVars, stVars>>

OtherThanSeq == <<bfvVars, sccVars, essVars, hbVars, hllVars, dfVars, radVars, dpVars>>

InitBFV ==
    /\ graph \in BfvGraphs
    /\ granularity \in 1 .. MaxGranularity
    /\ start \in Nodes(graph)
    /\ rejected \in FilterChoices(graph)
    /\ BfvIdle
    /\ OthersIdleBFV

\* callback(args): the observer records the event
Callback(node, parent, d) ==
    /\ cbCount' = [cbCount EXCEPT ![node] = @ + 1]
    /\ cbDist' = [cbDist EXCEPT ![node] = d]
    /\ cbParent' = [cbParent EXCEPT ![node] = parent]

AppendRoot(r) == IF \E i \in 1 .. Len(rootSeq) : rootSeq[i] = r THEN rootSeq ELSE Append(rootSeq, r)

\* visit_from_node up to the entry of the level loop
EnterVisit(r) ==
    /\ rootSeq' = AppendRoot(r)
    /\ IF visited[r] \/ ~filter(r, r)
       THEN UNCHANGED <<visited, curr_frontier, next_frontier, distance, root, bfvPc,
                        cbCount, cbDist, cbParent>>
       ELSE /\ curr_frontier' = {r}
            /\ next_frontier' = {}
            /\ visited' = [visited EXCEPT ![r] = TRUE]
            /\ Callback(r, r, 0)
            /\ distance' = 1
            /\ root' = r
            /\ bfvPc' = "level"

VisitFromNode(r) ==
    /\ bfvPc = "idle"
    /\ index = -1
    /\ EnterVisit(r)
    /\ UNCHANGED <<graph, granularity, start, rejected, task, index, wholeFresh>>
    /\ UNCHANGED OtherThanBFV

\* chunks(granularity): the arcs a chunk of frontier nodes makes a thread examine
RECURSIVE ChunkArcs(_)
ChunkArcs(nodes) ==
    IF nodes = <<>> THEN <<>>
    ELSE LET node == Head(nodes)
             succs == Successors(graph, node)
         IN [i \in 1 .. Len(succs) |-> <<node, succs[i]>>] \o ChunkArcs(Tail(nodes))

TakeChunk(t) ==
    /\ bfvPc = "level"
    /\ task[t] = <<>>
    /\ curr_frontier # {}
    /\ \E chunk \in SUBSET curr_frontier :
        /\ Cardinality(chunk) = Min2(granularity, Cardinality(curr_frontier))
        /\ task' = [task EXCEPT ![t] = ChunkArcs(SortedSeq(chunk))]
        /\ curr_frontier' = curr_frontier \ chunk
    /\ UNCHANGED <<graph, granularity, start, rejected, visited, next_frontier, distance, root,
                   bfvPc, index, cbCount, cbDist, cbParent, rootSeq, wholeFresh>>
    /\ UNCHANGED OtherThanBFV

\* a test-and-set whose read misses the bit
swap_lost(succ) == FALSE

\* visited.swap(succ, true): the previous bit
swap(succ) == visited[succ]

\* a test-and-set that is evaluated whatever the filter answered
Swaps_unfiltered(accepted) == TRUE

\* filter(&args) && !visited.swap(..): the right operand is evaluated when the left one holds
Swaps(accepted) == accepted

\* one successor of one frontier node: filter, swap, callback, push
ExamineArc(t) ==
    /\ bfvPc = "level"
    /\ task[t] # <<>>
    /\ LET node == Head(task[t])[1]
           succ == Head(task[t])[2]
           accepted == filter(succ, node)
       IN /\ task' = [task EXCEPT ![t] = Tail(@)]
          /\ visited' = IF Swaps(accepted) THEN [visited EXCEPT ![succ] = TRUE] ELSE visited
          /\ IF accepted /\ ~swap(succ)
             THEN /\ Callback(succ, node, distance)
                  /\ next_frontier' = next_frontier \cup {succ}
             ELSE UNCHANGED <<cbCount, cbDist, cbParent, next_frontier>>
    /\ UNCHANGED <<graph, granularity, start, rejected, curr_frontier, distance, root, bfvPc,
                   index, rootSeq, wholeFresh>>
    /\ UNCHANGED OtherThanBFV

\* a level counter that is not advanced
NextDistance_stuck(d) == d

\* distance += 1
NextDistance(d) == d + 1

\* an install() that returns as soon as every chunk was handed out
InstallReturned_early == curr_frontier = {}

\* install(|| ..for_each(..)) returns when every chunk of the frontier was gone through
InstallReturned == curr_frontier = {} /\ \A t \in Threads : task[t] = <<>>

\* the install() returned: distance += 1, the frontiers swap, the loop test
LevelEnd ==
    /\ bfvPc = "level"
    /\ InstallReturned
    /\ distance' = NextDistance(distance)
    /\ curr_frontier' = next_frontier
    /\ next_frontier' = {}
    /\ bfvPc' = IF next_frontier = {} THEN "idle" ELSE "level"
    /\ UNCHANGED <<graph, granularity, start, rejected, visited, root, task, index,
                   cbCount, cbDist, cbParent, rootSeq, wholeFresh>>
    /\ UNCHANGED OtherThanBFV

\* visit(): for i in 0..num_nodes, visit_from_node((i + start) % num_nodes)
BeginVisitGraph ==
    /\ bfvPc = "idle"
    /\ index = -1
    /\ index' = 0
    /\ wholeFresh' = (\A v \in Nodes(graph) : ~visited[v])
    /\ UNCHANGED <<graph, granularity, start, rejected, visited, curr_frontier, next_frontier,
                   distance, root, bfvPc, task, cbCount, cbDist, cbParent, rootSeq>>
    /\ UNCHANGED OtherThanBFV

StepVisitGraph ==
    /\ bfvPc = "idle"
    /\ index >= 0
    /\ index < graph.n
    /\ EnterVisit((index + start) % graph.n)
    /\ index' = index + 1
    /\ UNCHANGED <<graph, granularity, start, rejected, task, wholeFresh>>
    /\ UNCHANGED OtherThanBFV

EndVisitGraph ==
    /\ bfvPc = "idle"
    /\ index = graph.n
    /\ index' = -1
    /\ UNCHANGED <<graph, granularity, start, rejected, visited, curr_frontier, next_frontier,
                   distance, root, bfvPc, task, cbCount, cbDist, cbParent, rootSeq, wholeFresh>>
    /\ UNCHANGED OtherThanBFV

\* reset(): visited.fill(false)
Reset ==
    /\ bfvPc = "idle"
    /\ index = -1
    /\ visited' = [v \in Nodes(graph) |-> FALSE]
    /\ cbCount' = [v \in Nodes(graph) |-> 0]
    /\ cbDist' = [v \in Nodes(graph) |-> Unreachable]
    /\ cbParent' = [v \in Nodes(graph) |-> Unreachable]
    /\ rootSeq' = <<>>
    /\ wholeFresh' = FALSE
    /\ UNCHANGED <<graph, granularity, start, rejected, curr_frontier, next_frontier, distance,
                   root, bfvPc, task, index>>
    /\ UNCHANGED OtherThanBFV

NextBFV ==
    \/ \E r \in Nodes(graph) : VisitFromNode(r)
    \/ \E t \in Threads : TakeChunk(t)
    \/ \E t \in Threads : ExamineArc(t)
    \/ LevelEnd
    \/ BeginVisitGraph
    \/ StepVisitGraph
    \/ EndVisitGraph
    \/ Reset

(***************************************************************************)
(* Strongly connected components and their graph                           *)
(***************************************************************************)
SccMaxArcs == 6

SccNodes == 0 .. 3

SccGraphs == {[n |-> Cardinality(SccNodes), arcs |-> A] :
                A \in SubsetsUpTo({a \in SccNodes \X SccNodes : a[1] # a[2]}, SccMaxArcs)}

\* Tarjan's algorithm: a depth-first visit from the nodes in increasing order, with
\* preorder indices, low-links and the stack of open nodes; a component gets its id when
\* it closes, so that ids follow the order of emission
RECURSIVE TarjanVisit(_, _, _), TarjanSuccessors(_, _, _, _)
TarjanClose(st, v) ==
    LET pos == CHOOSE i \in 1 .. Len(st.stack) : st.stack[i] = v
        members == {st.stack[i] : i \in pos .. Len(st.stack)}
    IN [st EXCEPT !.comp = [u \in DOMAIN st.comp |-> IF u \in members THEN st.num ELSE st.comp[u]],
                  !.num = st.num + 1,
                  !.stack = SubSeq(st.stack, 1, pos - 1)]

TarjanSuccessors(g, st, v, succs) ==
    IF succs = <<>> THEN st
    ELSE LET w == Head(succs)
         IN IF st.pre[w] = None
            THEN LET s2 == TarjanVisit(g, st, w)
                 IN TarjanSuccessors(g, [s2 EXCEPT !.low[v] = Min2(@, s2.low[w])], v, Tail(succs))
            ELSE IF st.comp[w] = None
                 THEN TarjanSuccessors(g, [st EXCEPT !.low[v] = Min2(@, st.pre[w])], v, Tail(succs))
                 ELSE TarjanSuccessors(g, st, v, Tail(succs))

TarjanVisit(g, st, v) ==
    LET s1 == [st EXCEPT !.pre[v] = st.counter, !.low[v] = st.counter,
                         !.counter = st.counter + 1, !.stack = Append(st.stack, v)]
        s2 == TarjanSuccessors(g, s1, v, Successors(g, v))
    IN IF s2.low[v] = s2.pre[v] THEN TarjanClose(s2, v) ELSE s2

RECURSIVE TarjanFrom(_, _, _)
TarjanFrom(g, st, v) ==
    IF v = g.n THEN st
    ELSE TarjanFrom(g, IF st.pre[v] = None THEN TarjanVisit(g, st, v) ELSE st, v + 1)

TarjanStronglyConnectedComponents(g) ==
    LET st == TarjanFrom(g, [pre |-> [v \in Nodes(g) |-> None], low |-> [v \in Nodes(g) |-> None],
                             comp |-> [v \in Nodes(g) |-> None], counter |-> 0, num |-> 0,
                             stack |-> <<>>], 0)
    IN [num |-> st.num, comp |-> st.comp]

SccComponents(c) == 0 .. (c.num - 1)

\* vertices_in_scc[c]: the vertices of component c in increasing order
VerticesInScc(c, k) == SortedSeq({v \in DOMAIN c.comp : c.comp[v] = k})

arc_value(g, s, e) == Outdegree(Transpose(g), s) + Outdegree(g, e)

\* a scan that takes every arc for an arc between two components
CrossesComponents_any(c, succ_component) == TRUE

\* c != succ_component
CrossesComponents(c, succ_component) == c # succ_component

EmptyBest(c) == [best_start |-> [k \in SccComponents(c) |-> None],
                 best_end |-> [k \in SccComponents(c) |-> None],
                 child_components |-> <<>>]

\* the body of the loop over the successors of v, a vertex of component c
ScanArc(b, g, c, k, v, succ) ==
    LET sc == c.comp[succ]
        b1 == IF b.best_start[sc] = None
              THEN [best_start |-> [b.best_start EXCEPT ![sc] = v],
                    best_end |-> [b.best_end EXCEPT ![sc] = succ],
                    child_components |-> Append(b.child_components, sc)]
              ELSE b
    IN IF ~CrossesComponents(k, sc) THEN b
       ELSE IF arc_value(g, v, succ) > arc_value(g, b1.best_start[sc], b1.best_end[sc])
            THEN [b1 EXCEPT !.best_start[sc] = v, !.best_end[sc] = succ]
            ELSE b1

RECURSIVE ScanVertex(_, _, _, _, _, _)
ScanVertex(b, g, c, k, v, succs) ==
    IF succs = <<>> THEN b
    ELSE ScanVertex(ScanArc(b, g, c, k, v, Head(succs)), g, c, k, v, Tail(succs))

\* scc_vec, start_vec, end_vec of the scanned component, zipped
ComponentConnections(b) ==
    [i \in 1 .. Len(b.child_components) |->
        [target |-> b.child_components[i],
         start |-> b.best_start[b.child_components[i]],
         end |-> b.best_end[b.child_components[i]]]]

\* a scan that clears the list of children and keeps the best arcs
ClearBest_kept(b) == [b EXCEPT !.child_components = <<>>]

\* best_start[child] = None for every child, child_components.clear()
ClearBest(b) ==
    [b EXCEPT !.best_start = [k \in DOMAIN b.best_start |->
                                IF \E i \in 1 .. Len(b.child_components) : b.child_components[i] = k
                                THEN None ELSE b.best_start[k]],
              !.child_components = <<>>]

\* lengths and connections: the offset of every component, and the connections flattened
RECURSIVE Flatten(_, _, _)
Flatten(sg, k, num) == IF k = num THEN <<>> ELSE sg[k] \o Flatten(sg, k + 1, num)

RECURSIVE OffsetOf(_, _)
OffsetOf(sg, k) == IF k = 0 THEN 0 ELSE OffsetOf(sg, k - 1) + Len(sg[k - 1])

\* children(component) on the built graph
children(so, d, component) ==
    LET offset == so[component]
    IN IF component + 1 >= Cardinality(DOMAIN so)
       THEN SubSeq(d, offset + 1, Len(d))
       ELSE SubSeq(d, offset + 1, so[component + 1])

\* SccGraph::new entered find_edges_through_scc with the component map of the graph
SccStart(g) ==
    /\ scc = TarjanStronglyConnectedComponents(g)
    /\ sccPc = "scan"
    /\ sccC = 0
    /\ sccPending = VerticesInScc(scc, 0)
    /\ best = EmptyBest(scc)
    /\ scc_graph = [k \in SccComponents(scc) |-> <<>>]
    /\ segments_offset = <<>>
    /\ data = <<>>
    /\ childrenOut = <<>>

InitSCC ==
    /\ graph \in SccGraphs
    /\ SccStart(graph)
    /\ OthersIdleSCC

\* one vertex of the component being scanned
SccScanVertex ==
    /\ sccPc = "scan"
    /\ sccPending # <<>>
    /\ LET v == Head(sccPending)
       IN best' = ScanVertex(best, graph, scc, sccC, v, Successors(graph, v))
    /\ sccPending' = Tail(sccPending)
    /\ UNCHANGED <<graph, scc, sccPc, sccC, scc_graph, segments_offset, data, childrenOut>>
    /\ UNCHANGED OtherThanSCC

\* the component is scanned: its connections are stored and the scan moves on
SccEmitComponent ==
    /\ sccPc = "scan"
    /\ sccPending = <<>>
    /\ scc_graph' = [scc_graph EXCEPT ![sccC] = ComponentConnections(best)]
    /\ best' = ClearBest(best)
    /\ sccC' = sccC + 1
    /\ IF sccC + 1 < scc.num
       THEN sccPending' = VerticesInScc(scc, sccC + 1) /\ sccPc' = "scan"
       ELSE sccPending' = <<>> /\ sccPc' = "flatten"
    /\ UNCHANGED <<graph, scc, segments_offset, data, childrenOut>>
    /\ UNCHANGED OtherThanSCC

\* the second half of find_edges_through_scc and the end of SccGraph::new
SccFlatten ==
    /\ sccPc = "flatten"
    /\ segments_offset' = [k \in SccComponents(scc) |-> OffsetOf(scc_graph, k)]
    /\ data' = Flatten(scc_graph, 0, scc.num)
    /\ sccPc' = "built"
    /\ UNCHANGED <<graph, scc, sccC, sccPending, best, scc_graph, childrenOut>>
    /\ UNCHANGED OtherThanSCC

Children(component) ==
    /\ sccPc = "built"
    /\ childrenOut' = <<component, children(segments_offset, data, component)>>
    /\ UNCHANGED <<graph, scc, sccPc, sccC, sccPending, best, scc_graph, segments_offset, data>>
    /\ UNCHANGED OtherThanSCC

NextSCC ==
    \/ SccScanVertex
    \/ SccEmitComponent
    \/ SccFlatten
    \/ \E component \in SccComponents(scc) : Children(component)

\* find_edges_through_scc as one computation: the scan of all the components
RECURSIVE ScanVertices(_, _, _, _, _)
ScanVertices(b, g, c, k, vs) ==
    IF vs = <<>> THEN b
    ELSE ScanVertices(ScanVertex(b, g, c, k, Head(vs), Successors(g, Head(vs))), g, c, k, Tail(vs))

RECURSIVE ScanComponents(_, _, _, _, _)
ScanComponents(sg, b, g, c, k) ==
    IF k = c.num THEN sg
    ELSE LET b1 == ScanVertices(b, g, c, k, VerticesInScc(c, k))
         IN ScanComponents([sg EXCEPT ![k] = ComponentConnections(b1)], ClearBest(b1), g, c, k + 1)

\* SccGraph::new has returned for graph g
SccBuilt(g) ==
    /\ scc = TarjanStronglyConnectedComponents(g)
    /\ sccPc = "built"
    /\ sccC = scc.num
    /\ sccPending = <<>>
    /\ best = EmptyBest(scc)
    /\ scc_graph = ScanComponents([k \in SccComponents(scc) |-> <<>>], EmptyBest(scc), g, scc, 0)
    /\ segments_offset = [k \in SccComponents(scc) |-> OffsetOf(scc_graph, k)]
    /\ data = Flatten(scc_graph, 0, scc.num)
    /\ childrenOut = <<>>

(***************************************************************************)
(* ExactSumSweep (DirExactSumSweepComputer)                                *)
(***************************************************************************)
EssMaxArcs == 3

EssNodes == 0 .. 3

\* every graph of at most EssMaxArcs arcs on the nodes EssNodes
EssSmallGraphs == {[n |-> Cardinality(EssNodes), arcs |-> A] :
                     A \in SubsetsUpTo({a \in EssNodes \X EssNodes : a[1] # a[2]}, EssMaxArcs)}

\* longer graphs, on which the main loop makes many rounds: a path and a star with arcs
\* both ways, a cycle, two cycles joined by an arc and followed by a tail
BothWays(A) == A \cup {<<a[2], a[1]>> : a \in A}

EssLongGraphs ==
    {[n |-> 6, arcs |-> BothWays({<<0, 1>>, <<1, 2>>, <<2, 3>>, <<3, 4>>, <<4, 5>>})],
     [n |-> 5, arcs |-> {<<0, 1>>, <<1, 2>>, <<2, 3>>, <<3, 4>>, <<4, 0>>}],
     [n |-> 6, arcs |-> BothWays({<<0, 1>>, <<0, 2>>, <<0, 3>>, <<3, 4>>, <<4, 5>>})],
     [n |-> 6, arcs |-> {<<0, 1>>, <<1, 0>>, <<1, 2>>, <<2, 3>>, <<3, 4>>, <<4, 2>>, <<4, 5>>}]}

\* the graph of no node
EssEmpty == [n |-> 0, arcs |-> {}]

\* a graph of four components in a chain, on which all_cc_upper_bound is called
EssChain == [n |-> 5, arcs |-> {<<0, 2>>, <<0, 4>>, <<1, 3>>, <<2, 0>>, <<2, 3>>, <<4, 1>>, <<4, 3>>}]

EssGraphs == EssSmallGraphs \cup EssLongGraphs \cup {EssEmpty, EssChain}

\* the graphs on which the termination of compute() is followed to the end
EssFairMaxArcs == 2

EssFairGraphs ==
    {g \in EssSmallGraphs : Cardinality(g.arcs) <= EssFairMaxArcs} \cup EssLongGraphs
        \cup {EssEmpty}

\* the OutputLevel variants
Outputs == {"Radius", "Diameter", "RadiusDiameter", "AllForward", "All"}

\* usize::MAX, the initial radius_high
usize_MAX == 2147483647

\* the distances that breadth-first visits report (Event::Unknown carries the distance of
\* the first discovery): on the graph, on the transpose, and on both through the filter
\* components[curr] == pivot_component, which keeps a visit inside the component of its root
Induced(g, c, k) == [n |-> g.n, arcs |-> {a \in g.arcs : c.comp[a[1]] = k /\ c.comp[a[2]] = k}]

VisitDistances(g, c) ==
    [fwd |-> [r \in Nodes(g) |-> [v \in Nodes(g) |-> Dist(g, r, v)]],
     bwd |-> [r \in Nodes(g) |-> [v \in Nodes(g) |-> Dist(Transpose(g), r, v)]],
     fwdIn |-> [r \in Nodes(g) |-> [v \in Nodes(g) |-> Dist(Induced(g, c, c.comp[r]), r, v)]],
     bwdIn |-> [r \in Nodes(g) |-> [v \in Nodes(g) |-> Dist(Transpose(Induced(g, c, c.comp[r])), r, v)]]]

\* visit.visit(start, callback): the nodes for which the callback sees Event::Unknown
Visited(d, s) == {v \in DOMAIN d[s] : d[s][v] # Unreachable}

\* max_dist after the visit
MaxDist(d, s) == SetMax({d[s][v] : v \in Visited(d, s)})

incomplete_forward(e, i) == e.forward_low[i] # e.forward_high[i]
incomplete_backward(e, i) == e.backward_low[i] # e.backward_high[i]

\* math::filtered_argmax over the indices 0..n-1; flt is the set of indices the filter accepts
RECURSIVE FilteredArgmaxScan(_, _, _, _, _, _)
FilteredArgmaxScan(vec, tie, flt, i, n, arg) ==
    IF i = n THEN arg
    ELSE IF i \in flt /\ (arg = None \/ vec[i] > vec[arg] \/ (vec[i] = vec[arg] /\ tie[i] > tie[arg]))
         THEN FilteredArgmaxScan(vec, tie, flt, i + 1, n, i)
         ELSE FilteredArgmaxScan(vec, tie, flt, i + 1, n, arg)

filtered_argmax(vec, tie, flt) == FilteredArgmaxScan(vec, tie, flt, 0, Cardinality(DOMAIN vec), None)

RECURSIVE FilteredArgminScan(_, _, _, _, _, _)
FilteredArgminScan(vec, tie, flt, i, n, arg) ==
    IF i = n THEN arg
    ELSE IF i \in flt /\ (arg = None \/ vec[i] < vec[arg] \/ (vec[i] = vec[arg] /\ tie[i] < tie[arg]))
         THEN FilteredArgminScan(vec, tie, flt, i + 1, n, i)
         ELSE FilteredArgminScan(vec, tie, flt, i + 1, n, arg)

filtered_argmin(vec, tie, flt) == FilteredArgminScan(vec, tie, flt, 0, Cardinality(DOMAIN vec), None)

\* DirExactSumSweepComputer::new
NewComputer(g, output, radial) ==
    [output |-> output,
     forward_tot |-> [v \in Nodes(g) |-> 0],
     backward_tot |-> [v \in Nodes(g) |-> 0],
     forward_low |-> [v \in Nodes(g) |-> 0],
     forward_high |-> [v \in Nodes(g) |-> g.n],
     backward_low |-> [v \in Nodes(g) |-> 0],
     backward_high |-> [v \in Nodes(g) |-> g.n],
     diameter_low |-> 0,
     radius_high |-> usize_MAX,
     radius_iterations |-> None,
     diameter_iterations |-> None,
     all_iter |-> None,
     forward_iter |-> None,
     iterations |-> 0,
     radial_vertices |-> [v \in Nodes(g) |-> radial.given /\ v \in radial.bits],
     radius_vertex |-> 0,
     diameter_vertex |-> 0,
     compute_radial_vertices |-> ~radial.given]

\* the radius after concurrent attempts to shrink it: cand maps the candidate nodes to the
\* eccentricity each offers; the node that ends in radius_vertex is any of those offering
\* the least value, when that value is less than the radius held before
RadiusOutcomes(e, cand) ==
    LET least == SetMin({cand[v] : v \in DOMAIN cand})
    IN IF DOMAIN cand = {} \/ least >= e.radius_high
       THEN {<<e.radius_high, e.radius_vertex>>}
       ELSE {<<least, v>> : v \in {w \in DOMAIN cand : cand[w] = least}}

\* the radius shrinks onto the eccentricity of the start of a forward visit
ShrinksRadius_anywhere(e, from, ecc_start) == e.radius_high > ecc_start

ShrinksRadius(e, from, ecc_start) == e.radial_vertices[from] /\ e.radius_high > ecc_start

\* forward_step_sum_sweep(start), with start called from; d holds the distances of the graph
forward_step_sum_sweep(e, d, from) ==
    LET seen == Visited(d, from)
        ecc_start == MaxDist(d, from)
        tot == [v \in DOMAIN e.backward_tot |->
                    IF v \in seen THEN e.backward_tot[v] + d[from][v] ELSE e.backward_tot[v]]
        low == [v \in DOMAIN e.backward_low |->
                    IF v \in seen /\ e.backward_low[v] # e.backward_high[v]
                                  /\ e.backward_low[v] < d[from][v]
                    THEN d[from][v] ELSE e.backward_low[v]]
        shrink == ShrinksRadius(e, from, ecc_start)
    IN [e EXCEPT !.backward_tot = tot,
                 !.backward_low = low,
                 !.forward_low[from] = ecc_start,
                 !.forward_high[from] = ecc_start,
                 !.diameter_low = IF e.diameter_low < ecc_start THEN ecc_start ELSE @,
                 !.diameter_vertex = IF e.diameter_low < ecc_start THEN from ELSE @,
                 !.radius_high = IF shrink THEN ecc_start ELSE @,
                 !.radius_vertex = IF shrink THEN from ELSE @]

\* the nodes whose lower bound was raised, whether or not it met the upper bound
BackwardRadiusCandidates_raised(e, dt, from) ==
    LET C == {v \in Visited(dt, from) :
                /\ e.forward_low[v] # e.forward_high[v]
                /\ e.forward_low[v] < dt[from][v]
                /\ e.radial_vertices[v]}
    IN [v \in C |-> dt[from][v]]

\* the nodes whose callback in backwards_step_sum_sweep tries to shrink the radius
BackwardRadiusCandidates(e, dt, from) ==
    LET C == {v \in Visited(dt, from) :
                /\ e.forward_low[v] # e.forward_high[v]
                /\ e.forward_low[v] < dt[from][v]
                /\ dt[from][v] = e.forward_high[v]
                /\ e.radial_vertices[v]}
    IN [v \in C |-> dt[from][v]]

\* backwards_step_sum_sweep(start), with start called from; dt holds the distances of the transpose, radius is the
\* content of the radius lock when the visit is over
backwards_step_sum_sweep(e, dt, from, radius) ==
    LET seen == Visited(dt, from)
        ecc_start == MaxDist(dt, from)
        tot == [v \in DOMAIN e.forward_tot |->
                    IF v \in seen THEN e.forward_tot[v] + dt[from][v] ELSE e.forward_tot[v]]
        low == [v \in DOMAIN e.forward_low |->
                    IF v \in seen /\ e.forward_low[v] # e.forward_high[v]
                                  /\ e.forward_low[v] < dt[from][v]
                    THEN dt[from][v] ELSE e.forward_low[v]]
    IN [e EXCEPT !.forward_tot = tot,
                 !.forward_low = low,
                 !.backward_low[from] = ecc_start,
                 !.backward_high[from] = ecc_start,
                 !.radius_high = radius[1],
                 !.radius_vertex = radius[2],
                 !.diameter_low = IF e.diameter_low < ecc_start THEN ecc_start ELSE @,
                 !.diameter_vertex = IF e.diameter_low < ecc_start THEN from ELSE @]

\* the sum of the lower bounds alone, whether or not the node is complete
PivotValue_bounds(e, v, n) == e.backward_low[v] + e.forward_low[v]

\* the value find_best_pivot minimises
PivotValue(e, v, n) ==
    e.backward_low[v] + e.forward_low[v]
        + (IF incomplete_forward(e, v) THEN 0 ELSE n)
        + (IF incomplete_backward(e, v) THEN 0 ELSE n)

\* the reverse scan of find_best_pivot, from node v down to node 0
RECURSIVE BestPivotScan(_, _, _, _)
BestPivotScan(e, c, pivot, v) ==
    IF v < 0 THEN pivot
    ELSE LET k == c.comp[v]
             p == pivot[k]
             n == Cardinality(DOMAIN c.comp)
         IN IF p = None
            THEN BestPivotScan(e, c, [pivot EXCEPT ![k] = v], v - 1)
            ELSE IF \/ PivotValue(e, v, n) < PivotValue(e, p, n)
                    \/ /\ PivotValue(e, v, n) = PivotValue(e, p, n)
                       /\ e.forward_tot[v] + e.backward_tot[v] <= e.forward_tot[p] + e.backward_tot[p]
                 THEN BestPivotScan(e, c, [pivot EXCEPT ![k] = v], v - 1)
                 ELSE BestPivotScan(e, c, pivot, v - 1)

find_best_pivot(e, c) ==
    BestPivotScan(e, c, [k \in SccComponents(c) |-> None], Cardinality(DOMAIN c.comp) - 1)

\* compute_dist_pivot_from_graph (d holds the distances of the filtered visits): the distance of every node from the pivot of its
\* component, and per component the distance stored by the last callback of the visit from
\* its pivot (the callbacks of a level follow those of the levels before)
compute_dist_pivot_from_graph(g, d, c, pivot) ==
    LET dist_pivot == [v \in Nodes(g) |-> d[pivot[c.comp[v]]][v]]
    IN [dist_pivot |-> dist_pivot,
        ecc_pivot |-> [k \in SccComponents(c) |->
                          SetMax({dist_pivot[v] : v \in {w \in Nodes(g) : c.comp[w] = k}})]]

\* a connection counted without its arc
BridgeLength_short(df, db, x) == df[x.start] + db[x.end]

\* dist_pivot_f[start] + 1 + dist_pivot_b[end]
BridgeLength(df, db, x) == df[x.start] + 1 + db[x.end]

\* the loop over children(c) that bounds the forward eccentricity of the pivot of c
RECURSIVE ForwardConnections(_, _, _, _, _, _)
ForwardConnections(ecc, conns, c, cap, df, db) ==
    IF conns = <<>> THEN ecc
    ELSE LET x == Head(conns)
             v == Max2(ecc[c], BridgeLength(df, db, x) + ecc[x.target])
         IN IF v >= cap THEN [ecc EXCEPT ![c] = cap]
            ELSE ForwardConnections([ecc EXCEPT ![c] = v], Tail(conns), c, cap, df, db)

\* the components as they are, from component c on
RECURSIVE ForwardPass(_, _, _, _, _, _, _, _)
ForwardPass(ecc, c, num, e, pivot, df, db, kids) ==
    IF c = num THEN ecc
    ELSE ForwardPass(ForwardConnections(ecc, kids[c], c, e.forward_high[pivot[c]], df, db),
                     c + 1, num, e, pivot, df, db, kids)

\* the loop over children(c) that bounds the backward eccentricity of the children's pivots
RECURSIVE BackwardConnections(_, _, _, _, _, _, _)
BackwardConnections(ecc, conns, c, e, pivot, df, db) ==
    IF conns = <<>> THEN ecc
    ELSE LET x == Head(conns)
             v == Max2(ecc[x.target], BridgeLength(df, db, x) + ecc[c])
             w == IF v >= e.backward_high[pivot[x.target]] THEN e.backward_high[pivot[x.target]] ELSE v
         IN BackwardConnections([ecc EXCEPT ![x.target] = w], Tail(conns), c, e, pivot, df, db)

RECURSIVE BackwardPass(_, _, _, _, _, _, _)
RECURSIVE BackwardPassUp(_, _, _, _, _, _, _, _)
BackwardPassUp(ecc, c, num, e, pivot, df, db, kids) ==
    IF c = num THEN ecc
    ELSE BackwardPassUp(BackwardConnections(ecc, kids[c], c, e, pivot, df, db),
                        c + 1, num, e, pivot, df, db, kids)

\* the components as they are, up to component c
BackwardPass_ascending(ecc, c, e, pivot, df, db, kids) ==
    BackwardPassUp(ecc, 0, c + 1, e, pivot, df, db, kids)

\* the components in reverse, from component c down
BackwardPass(ecc, c, e, pivot, df, db, kids) ==
    IF c < 0 THEN ecc
    ELSE BackwardPass(BackwardConnections(ecc, kids[c], c, e, pivot, df, db),
                      c - 1, e, pivot, df, db, kids)

\* the bounds written as they are computed, whatever the bounds before
AllCCBounds_unclamped(e, g, vd, c, kids) ==
    LET pivot == find_best_pivot(e, c)
        f == compute_dist_pivot_from_graph(g, vd.fwdIn, c, pivot)
        b == compute_dist_pivot_from_graph(g, vd.bwdIn, c, pivot)
        ecc_pivot_f == ForwardPass(f.ecc_pivot, 0, c.num, e, pivot, f.dist_pivot, b.dist_pivot, kids)
        ecc_pivot_b == BackwardPass(b.ecc_pivot, c.num - 1, e, pivot, f.dist_pivot, b.dist_pivot, kids)
    IN [forward_high |-> [v \in Nodes(g) |-> b.dist_pivot[v] + ecc_pivot_f[c.comp[v]]],
        backward_high |-> [v \in Nodes(g) |-> f.dist_pivot[v] + ecc_pivot_b[c.comp[v]]]]

\* the bounds all_cc_upper_bound writes: forward_high and backward_high of every node
AllCCBounds(e, g, vd, c, kids) ==
    LET pivot == find_best_pivot(e, c)
        f == compute_dist_pivot_from_graph(g, vd.fwdIn, c, pivot)
        b == compute_dist_pivot_from_graph(g, vd.bwdIn, c, pivot)
        ecc_pivot_f == ForwardPass(f.ecc_pivot, 0, c.num, e, pivot, f.dist_pivot, b.dist_pivot, kids)
        ecc_pivot_b == BackwardPass(b.ecc_pivot, c.num - 1, e, pivot, f.dist_pivot, b.dist_pivot, kids)
    IN [forward_high |-> [v \in Nodes(g) |->
                            Min2(e.forward_high[v], b.dist_pivot[v] + ecc_pivot_f[c.comp[v]])],
        backward_high |-> [v \in Nodes(g) |->
                            Min2(e.backward_high[v], f.dist_pivot[v] + ecc_pivot_b[c.comp[v]])]]

\* the nodes that try to shrink the radius in all_cc_upper_bound
AllCCRadiusCandidates(e, bounds) ==
    LET C == {v \in DOMAIN e.forward_low :
                bounds.forward_high[v] = e.forward_low[v] /\ e.radial_vertices[v]}
    IN [v \in C |-> bounds.forward_high[v]]

\* all_cc_upper_bound; radius is the content of the radius lock at the end
all_cc_upper_bound(e, bounds, radius) ==
    [e EXCEPT !.forward_high = bounds.forward_high,
              !.backward_high = bounds.backward_high,
              !.radius_high = radius[1],
              !.radius_vertex = radius[2],
              !.iterations = e.iterations + 3]

\* find_missing_nodes: the marks it leaves and the number it returns
find_missing_nodes(e) ==
    LET V == DOMAIN e.forward_low
        inc_f == {v \in V : incomplete_forward(e, v)}
        inc_b == {v \in V : incomplete_backward(e, v)}
        missing_all_forward == Cardinality(inc_f)
        missing_all_backward == Cardinality(inc_b)
        missing_df == Cardinality({v \in inc_f : e.forward_high[v] > e.diameter_low})
        missing_db == Cardinality({v \in inc_b : e.backward_high[v] > e.diameter_low})
        missing_r == Cardinality({v \in inc_f : e.radial_vertices[v] /\ e.forward_low[v] < e.radius_high})
    IN [e |-> [e EXCEPT
                !.radius_iterations =
                    IF missing_r = 0 /\ @ = None THEN e.iterations ELSE @,
                !.diameter_iterations =
                    IF (missing_df = 0 \/ missing_db = 0) /\ @ = None THEN e.iterations ELSE @,
                !.forward_iter =
                    IF missing_all_forward = 0 /\ @ = None THEN e.iterations ELSE @,
                !.all_iter =
                    IF missing_all_forward = 0 /\ missing_all_backward = 0 THEN e.iterations ELSE @],
        missing |-> CASE e.output = "Radius" -> missing_r
                      [] e.output = "Diameter" -> Min2(missing_df, missing_db)
                      [] e.output = "RadiusDiameter" -> missing_r + Min2(missing_df, missing_db)
                      [] e.output = "AllForward" -> missing_all_forward
                      [] e.output = "All" -> missing_all_backward + missing_all_forward]

\* fractions <<numerator, denominator>> in lowest terms stand for the f64 scores
RECURSIVE GCD(_, _)
GCD(a, b) == IF b = 0 THEN a ELSE GCD(b, a % b)

Frac(n, d) == IF n = 0 THEN <<0, 1>> ELSE <<n \div GCD(n, d), d \div GCD(n, d)>>
FracAdd(a, b) == Frac(a[1] * b[2] + b[1] * a[2], a[2] * b[2])

\* a comparison that takes the lesser for the greater
FracGreater_less(a, b) == a[1] * b[2] < b[1] * a[2]

\* elem > max
FracGreater(a, b) == a[1] * b[2] > b[1] * a[2]

\* math::argmax: the first index of the greatest element
RECURSIVE ArgmaxScan(_, _, _, _)
ArgmaxScan(vec, i, n, arg) ==
    IF i = n THEN arg
    ELSE IF FracGreater(vec[i], vec[arg]) THEN ArgmaxScan(vec, i + 1, n, i)
         ELSE ArgmaxScan(vec, i + 1, n, arg)

argmax(vec) == ArgmaxScan(vec, 1, Cardinality(DOMAIN vec), 0)

\* compute_radial_vertices: the nodes that reach a node of the biggest component
compute_radial_vertices(e, c, dt) ==
    LET scc_sizes == [k \in SccComponents(c) |-> Cardinality({v \in DOMAIN c.comp : c.comp[v] = k})]
        max_size_scc == argmax([k \in SccComponents(c) |-> <<scc_sizes[k], 1>>])
        v == SetMax({w \in DOMAIN c.comp : c.comp[w] = max_size_scc})
    IN [e EXCEPT !.radial_vertices = [w \in DOMAIN c.comp |-> @[w] \/ w \in Visited(dt, v)]]

\* the radial_vertices arguments tried: None, every set of nodes when the radius is asked
\* for, and all the nodes otherwise
RadialChoices(g, output) ==
    {[given |-> FALSE, bits |-> {}]}
        \cup {[given |-> TRUE, bits |-> S] :
                S \in IF output \in {"Radius", "RadiusDiameter"} THEN SUBSET Nodes(g) ELSE {Nodes(g)}}

Moves == 0 .. 4

\* max_by_key over the outdegrees: the order of the reduction is not specified, so any
\* vertex of greatest outdegree may come out
MaxOutdegreeVertices(g) == {v \in Nodes(g) : \A w \in Nodes(g) : Outdegree(g, w) <= Outdegree(g, v)}

\* the contents the radius lock may have when step_sum_sweep(from, forward) is over
StepRadiusOutcomes(e, dt, from, forward) ==
    IF from = None \/ forward THEN {<<e.radius_high, e.radius_vertex>>}
    ELSE RadiusOutcomes(e, BackwardRadiusCandidates(e, dt, from))

\* step_sum_sweep(start, forward), with start called from
step_sum_sweep(e, d, dt, from, forward, radius) ==
    IF from = None THEN e
    ELSE LET e1 == IF forward THEN forward_step_sum_sweep(e, d, from)
                   ELSE backwards_step_sum_sweep(e, dt, from, radius)
         IN [e1 EXCEPT !.iterations = e.iterations + 1]

IncompleteForward(e) == {v \in DOMAIN e.forward_low : incomplete_forward(e, v)}
IncompleteBackward(e) == {v \in DOMAIN e.backward_low : incomplete_backward(e, v)}
Radial(e) == {v \in DOMAIN e.radial_vertices : e.radial_vertices[v]}

\* what the observer keeps of a step made on the computer e: the move, its start vertex,
\* whether that vertex was complete already, and which of the five moves have run so far
\* without a start vertex or from a complete one
Observed(e, move, from, forward, before) ==
    LET complete == from # None /\ (IF forward THEN ~incomplete_forward(e, from)
                                                ELSE ~incomplete_backward(e, from))
    IN [move |-> move, from |-> from, complete |-> complete,
        noStart |-> before.noStart \cup (IF move \in 1 .. 4 /\ from = None THEN {move} ELSE {}),
        fromComplete |-> before.fromComplete \cup (IF move \in 1 .. 4 /\ complete THEN {move} ELSE {})]

\* a computer built by DirExactSumSweepComputer::new on one of the graphs of G
NewOn(G) ==
    /\ graph \in G
    /\ \E output \in Outputs : \E radial \in RadialChoices(graph, output) :
            ess = NewComputer(graph, output, radial)
    /\ essPc = "new"
    /\ essSteps = 0
    /\ heurI = 0
    /\ points = [i \in Moves |-> <<0, 1>>]
    /\ missing_nodes = 0
    /\ last = [move |-> None, from |-> None, complete |-> FALSE, noStart |-> {}, fromComplete |-> {}]
    /\ SccBuilt(graph)
    /\ visits = VisitDistances(graph, scc)
    /\ OthersIdleESS

InitESS == NewOn(EssGraphs)

InitESSFair == NewOn(EssFairGraphs)

\* compute() of a computer of no node: if self.num_nodes == 0 { return; }
ComputeOfNoNode ==
    /\ essPc = "new"
    /\ graph.n = 0
    /\ essPc' = "done"
    /\ essSteps' = essSteps + 1
    /\ UNCHANGED <<graph, visits, ess, heurI, points, missing_nodes, last>>
    /\ UNCHANGED OtherThanESS

\* compute() up to the first visit of sum_sweep_heuristic
ComputeBegin ==
    /\ essPc = "new"
    /\ graph.n # 0
    /\ LET e0 == IF ess.compute_radial_vertices
                 THEN compute_radial_vertices(ess, scc, visits.bwd) ELSE ess
       IN \E max_outdegree_vertex \in MaxOutdegreeVertices(graph) :
            /\ ess' = step_sum_sweep(e0, visits.fwd, visits.bwd, max_outdegree_vertex, TRUE,
                                     <<e0.radius_high, e0.radius_vertex>>)
            /\ last' = Observed(e0, None, max_outdegree_vertex, TRUE, last)
    /\ essPc' = "heuristic"
    /\ heurI' = 2
    /\ essSteps' = essSteps + 1
    /\ UNCHANGED <<graph, visits, points, missing_nodes>>
    /\ UNCHANGED OtherThanESS

\* one round of the loop of sum_sweep_heuristic
HeuristicStep ==
    /\ essPc = "heuristic"
    /\ heurI <= 6
    /\ LET forward == heurI % 2 # 0
           v == IF forward
                THEN filtered_argmax(ess.forward_tot, ess.forward_low, IncompleteForward(ess))
                ELSE filtered_argmax(ess.backward_tot, ess.backward_low, IncompleteBackward(ess))
       IN /\ \E radius \in StepRadiusOutcomes(ess, visits.bwd, v, forward) :
                ess' = step_sum_sweep(ess, visits.fwd, visits.bwd, v, forward, radius)
          /\ last' = Observed(ess, None, v, forward, last)
    /\ heurI' = heurI + 1
    /\ essSteps' = essSteps + 1
    /\ UNCHANGED <<graph, visits, essPc, points, missing_nodes>>
    /\ UNCHANGED OtherThanESS

\* the scores start at the number of nodes and the missing nodes are counted
EnterLoop ==
    /\ essPc = "heuristic"
    /\ heurI = 7
    /\ points' = [i \in Moves |-> <<graph.n, 1>>]
    /\ LET fm == find_missing_nodes(ess)
       IN ess' = fm.e /\ missing_nodes' = fm.missing
    /\ essPc' = "loop"
    /\ essSteps' = essSteps + 1
    /\ UNCHANGED <<graph, visits, heurI, last>>
    /\ UNCHANGED OtherThanESS

\* the rounds of the main loop are followed as long as the computer counts fewer iterations
MaxIterations == 40

\* the end of a round of the main loop, after move step_to_perform left the computer as e1
AfterMove(e1, step_to_perform) ==
    LET fm == find_missing_nodes(e1)
    IN /\ ess' = fm.e
       /\ missing_nodes' = fm.missing
       /\ points' = [i \in Moves |->
                        IF i = step_to_perform THEN <<missing_nodes - fm.missing, 1>>
                        ELSE IF points[i][1] >= 0 THEN FracAdd(points[i], Frac(2, fm.e.iterations))
                             ELSE points[i]]

\* while missing_nodes > 0, and the move is the first of greatest score
LoopChooses(step_to_perform) ==
    /\ essPc = "loop"
    /\ missing_nodes > 0
    /\ ess.iterations < MaxIterations
    /\ argmax(points) = step_to_perform

\* a round of the main loop making a visit from the vertex v
VisitMove(step_to_perform, v, forward) ==
    /\ LoopChooses(step_to_perform)
    /\ \E radius \in StepRadiusOutcomes(ess, visits.bwd, v, forward) :
          AfterMove(step_sum_sweep(ess, visits.fwd, visits.bwd, v, forward, radius),
                    step_to_perform)
    /\ last' = Observed(ess, step_to_perform, v, forward, last)
    /\ essSteps' = essSteps + 1
    /\ UNCHANGED <<graph, visits, essPc, heurI>>
    /\ UNCHANGED OtherThanESS

\* move 0: all_cc_upper_bound
MoveAllCCUpperBound ==
    /\ LoopChooses(0)
    /\ LET bounds == AllCCBounds(ess, graph, visits, scc, [c \in SccComponents(scc) |->
                                                      children(segments_offset, data, c)])
       IN \E radius \in RadiusOutcomes(ess, AllCCRadiusCandidates(ess, bounds)) :
            AfterMove(all_cc_upper_bound(ess, bounds, radius), 0)
    /\ last' = Observed(ess, 0, None, TRUE, last)
    /\ essSteps' = essSteps + 1
    /\ UNCHANGED <<graph, visits, essPc, heurI>>
    /\ UNCHANGED OtherThanESS

\* move 1: a forward visit from a vertex maximizing the upper bound
MoveForwardHigh ==
    VisitMove(1, filtered_argmax(ess.forward_high, ess.forward_tot, IncompleteForward(ess)), TRUE)

\* move 2: a forward visit from a radial vertex minimizing the lower bound
MoveForwardLow ==
    VisitMove(2, filtered_argmin(ess.forward_low, ess.forward_tot, Radial(ess)), TRUE)

\* move 3: a backward visit from a vertex maximizing the upper bound
MoveBackwardHigh ==
    VisitMove(3, filtered_argmax(ess.backward_high, ess.backward_tot, IncompleteBackward(ess)), FALSE)

\* move 4: a backward visit from a vertex maximizing the distance sum
MoveBackwardTot ==
    VisitMove(4, filtered_argmax(ess.backward_tot, ess.backward_high, IncompleteBackward(ess)), FALSE)

\* the loop is over: compute() logs the results (expect() panics on a missing count) and returns
ComputeReturn ==
    /\ essPc = "loop"
    /\ missing_nodes = 0
    /\ essPc' = IF \/ ess.output \in {"Radius", "RadiusDiameter"} /\ ess.radius_iterations = None
                   \/ ess.output \in {"Diameter", "RadiusDiameter"} /\ ess.diameter_iterations = None
                THEN "panic" ELSE "done"
    /\ essSteps' = essSteps + 1
    /\ UNCHANGED <<graph, visits, ess, heurI, points, missing_nodes, last>>
    /\ UNCHANGED OtherThanESS

NextESS ==
    \/ ComputeOfNoNode
    \/ ComputeBegin
    \/ HeuristicStep
    \/ EnterLoop
    \/ MoveAllCCUpperBound
    \/ MoveForwardHigh
    \/ MoveForwardLow
    \/ MoveBackwardHigh
    \/ MoveBackwardTot
    \/ ComputeReturn

(***************************************************************************)
(* HyperBall                                                               *)
(*                                                                         *)
(* One run() of a HyperBall built without weights and without centralities *)
(* on a pool of two threads.  A counter is modelled by the registers that  *)
(* the hashes of the nodes fall in; estimates are in units of 1/10000.     *)
(***************************************************************************)
HbMaxArcs == 1

\* graph.num_nodes() of the graphs HyperBall is run on
HbNumNodes == 12

\* the bits of the word type W of the counter arrays
W_BITS == 8

\* registers per counter: the fewest a HyperLogLogCounterArray accepts (log_2_num_registers = 4)
NumRegisters == 16

\* the registers that the hashes of the nodes fall in; the other registers stay zero
HbRegisters == 0 .. 1

\* what add() derives from the hash of an element: <<register j, candidate value r + 1>>
Hashes == {<<0, 1>>, <<1, 1>>, <<0, 2>>}

HbArcPool == {<<0, 1>>, <<1, 2>>, <<2, 0>>, <<1, 0>>, <<0, 0>>}

HbSmallGraphs == {[n |-> HbNumNodes, arcs |-> A] : A \in SubsetsUpTo(HbArcPool, HbMaxArcs)}

\* a path: one counter changes per iteration, for five iterations
HbPath == [n |-> HbNumNodes, arcs |-> {<<0, 1>>, <<1, 2>>, <<2, 3>>, <<3, 4>>, <<4, 5>>}]

\* four nodes that point to a node that points to a sink
HbFan == [n |-> HbNumNodes, arcs |-> {<<0, 4>>, <<1, 4>>, <<2, 4>>, <<3, 4>>, <<4, 5>>}]

\* two paths of three nodes that end in a common sink
HbChains == [n |-> HbNumNodes,
             arcs |-> {<<0, 1>>, <<1, 2>>, <<2, 6>>, <<3, 4>>, <<4, 5>>, <<5, 6>>}]

\* two nodes that point to a node that points to a sink, and a cycle with a loop on it
HbFork == [n |-> HbNumNodes,
           arcs |-> {<<0, 2>>, <<1, 2>>, <<2, 3>>, <<7, 8>>, <<8, 7>>, <<8, 8>>}]

HbLongGraphs == {HbPath, HbFan, HbChains, HbFork}

HbGraphs == HbSmallGraphs \cup HbLongGraphs

\* the nodes whose hash is varied; every other node hashes to <<0, 1>>
HbVaried(g) == CASE g = HbPath -> {3, 5}
                 [] g = HbFan -> {4, 5}
                 [] g = HbChains -> {5, 6}
                 [] g = HbFork -> {3, 8}
                 [] OTHER -> {0, 1}

HbHashings(g) == {[v \in Nodes(g) |-> IF v \in HbVaried(g) THEN f[v] ELSE <<0, 1>>] :
                      f \in [HbVaried(g) -> Hashes]}

\* granularity given to the builder
HbGranularities == {0, 1, 9}

\* the largest weight of a node
HbMaxWeight == 2

\* the runs made on one instance
HbMaxRuns == 2

\* the arguments of run(): <<upper_bound, threshold>>, the threshold <<>> (None) or a fraction
HbRunArgs == {<<0, <<>>>>, <<3, <<>>>>, <<HbNumNodes + 1, <<>>>>,
              <<HbNumNodes + 1, <<1, 20>>>>, <<HbNumNodes + 1, <<1, 10>>>>}

\* the arguments of run() on the graphs of the accessors: no iteration, one, all
HbApiRunArgs == {<<0, <<>>>>, <<1, <<>>>>, <<HbNumNodes + 1, <<>>>>}

\* (x + W::BITS - 1) & W::BITS.wrapping_neg()
RoundToWord(x) == ((x + W_BITS - 1) \div W_BITS) * W_BITS

\* ---- HyperLogLog counters: a counter is its registers, [HbRegisters -> value]
ZeroRegisters == [j \in HbRegisters |-> 0]

Zeroes(registers) == NumRegisters - Cardinality({j \in HbRegisters : registers[j] # 0})

\* 4 * sum of 1 / 2^value over all the registers
Harmonic4(registers) ==
    4 * Zeroes(registers)
    + 2 * Cardinality({j \in HbRegisters : registers[j] = 1})
    + Cardinality({j \in HbRegisters : registers[j] = 2})

\* alpha * m * m = 0.673 * 256, in units of 1/10000
alpha_m_m == 1722880

\* m * ln(m / zeroes) in units of 1/10000, for the numbers of zero registers met
LinearCounting == (16 :> 0) @@ (15 :> 10326) @@ (14 :> 21365)

\* estimates are kept in units of 1/10000
estimate_count(registers) ==
    LET zeroes == Zeroes(registers)
        estimate == (alpha_m_m * 4) \div Harmonic4(registers)
    IN IF zeroes # 0 /\ 2 * estimate < 5 * NumRegisters * 10000
       THEN LinearCounting[zeroes]
       ELSE estimate

\* a HyperLogLogCounter: the index of its counter and its cached_bits
get_counter(node) == [index |-> node, cached |-> FALSE, bits |-> ZeroRegisters, changed |-> FALSE]

is_changed(counter) == counter.cached /\ counter.changed

is_cached(counter) == counter.cached

\* what get_register reads: the cache if there is one, the backend otherwise
Registers(counter, bank) == IF counter.cached THEN counter.bits ELSE bank[counter.index]

cache(counter, bank) == [counter EXCEPT !.cached = TRUE, !.bits = bank[counter.index],
                                        !.changed = FALSE]

\* add(element) on an uncached counter of the bank: the bank afterwards
add(bank, node, element_hash) ==
    LET register == element_hash[1]
        current_value == bank[node][register]
        new_value == Max2(current_value, element_hash[2])
    IN [bank EXCEPT ![node][register] = new_value]

\* the register-wise maximum
MaxRegisters(x, y) == [j \in HbRegisters |-> Max2(x[j], y[j])]

\* merge_unsafe(other), other an uncached counter of the same bank: a cached counter is
\* merged in its cache; an uncached one is merged in the backend, in place or through a
\* cache that is committed at once, and is left uncached
merge_unsafe(counter, bank, other) ==
    LET x == Registers(counter, bank)
        merged == MaxRegisters(x, bank[other])
        changed == merged # x
    IN IF counter.cached
       THEN [counter |-> [counter EXCEPT !.bits = merged, !.changed = @ \/ changed],
             bank |-> bank]
       ELSE [counter |-> counter,
             bank |-> [bank EXCEPT ![counter.index] = merged]]

\* set_to(counter) on the uncached counter of a node in the result bank
set_to(result, node, counter, bank) == [result EXCEPT ![node] = Registers(counter, bank)]

\* ---- the state of HyperBall
FalseBits == [v \in Nodes(graph) |-> FALSE]

TrueBits == [v \in Nodes(graph) |-> TRUE]

ZeroBank == [v \in Nodes(graph) |-> ZeroRegisters]

\* an Option is a sequence: <<>> is None and <<x>> is Some(x)
Some(x) == <<x>>

\* MmapSlice::from_value(0.0, num_nodes, ..)
ZeroSlice == [v \in Nodes(graph) |-> 0]

\* HyperBallBuilder::build
Build(g) == [granularity |-> RoundToWord(g),
             sum_of_distances |-> IF hbIn.sum_of_distances THEN Some(ZeroSlice) ELSE <<>>,
             sum_of_inverse_distances |->
                 IF hbIn.sum_of_inverse_distances THEN Some(ZeroSlice) ELSE <<>>,
             discounted_centralities |->
                 [k \in 1 .. Len(hbIn.discount_functions) |-> ZeroSlice],
             bits |-> ZeroBank, result_bits |-> ZeroBank,
             iteration |-> 0, systolic |-> FALSE, local |-> FALSE, pre_local |-> FALSE,
             neighbourhood_function |-> <<>>, last |-> 0, current |-> 0,
             modified_counter |-> FalseBits, modified_result_counter |-> FalseBits,
             local_checklist |-> <<>>, local_next_must_be_checked |-> <<>>,
             must_be_checked |-> FalseBits, next_must_be_checked |-> FalseBits,
             relative_increment |-> <<0, 1>>]

\* IterationContext::reset; visited_arcs only feeds the progress logger and is left out
ContextReset(g) == [granularity |-> g, cursor |-> 0, arc_balanced_cursor |-> <<0, 0>>,
                    modified_counters |-> 0]

IdleWorkers == [t \in Threads |-> [pc |-> "idle", i |-> 0, end |-> 0, modified_counters |-> 0,
                                   neighbourhood_function_delta |-> 0]]

NoWriters == [v \in Nodes(graph) |-> {}]

OtherThanHB == <<bfvVars, sccVars, essVars, hllVars, dfVars, radVars, stVars, dpVars>>

\* the rest of the state once the HyperBall is built: nothing runs, nothing was observed
HbBuilt ==
    /\ hbCtx = ContextReset(0)
    /\ hbWorker = IdleWorkers
    /\ hbRun = [pc |-> "built", given |-> <<0, <<>>>>, upper_bound |-> 0, threshold |-> <<>>,
                i |-> 0, runs |-> 0]
    /\ hbObs = [pre |-> ZeroBank, result_writers |-> NoWriters, flag_writers |-> NoWriters,
                modes |-> <<>>, deltas |-> <<>>, call |-> <<>>, inits |-> <<>>,
                drawn |-> <<>>]
    /\ OthersIdleHB

InitHB ==
    /\ graph \in HbGraphs
    /\ \E rev \in BOOLEAN : \E h \in HbHashings(graph) :
            hbIn = [rev_graph |-> rev, hash |-> h, weights |-> <<>>,
                    sum_of_distances |-> FALSE, sum_of_inverse_distances |-> FALSE,
                    discount_functions |-> <<>>]
    /\ \E g \in HbGranularities : hb = Build(g)
    /\ HbBuilt

\* what add() derives from the hashes of the elements that random() yields
RandomHashes == {<<0, 1>>, <<1, 1>>}

\* the arguments of run(): those of HbRunArgs on the graphs of HbGraphs
RunArgs == IF graph \in HbGraphs THEN HbRunArgs ELSE HbApiRunArgs

\* the elements that random() yields while the weights are loaded, by what add() derives
\* from their hashes: for every node as many elements as its weight
RandomElements ==
    IF hbIn.weights = <<>> THEN {<<>>}
    ELSE LET w == hbIn.weights[1]
         IN [{<<i, k>> \in Nodes(graph) \X (1 .. HbMaxWeight) : k <= w[i]} -> RandomHashes]

\* the counter of node i after node_weight elements were added to it
RECURSIVE AddRandom(_, _, _, _)
AddRandom(bank, i, k, random) ==
    IF k = 0 THEN bank ELSE add(AddRandom(bank, i, k - 1, random), i, random[<<i, k>>])

\* init(): without weights every node is added to its own counter of the current bank
init(h, random) ==
    [h EXCEPT !.bits = IF hbIn.weights # <<>>
                       THEN [i \in Nodes(graph) |->
                                 AddRandom(ZeroBank, i, hbIn.weights[1][i], random)[i]]
                       ELSE [v \in Nodes(graph) |-> add(ZeroBank, v, hbIn.hash[v])[v]],
              !.result_bits = ZeroBank,
              !.iteration = 0, !.systolic = FALSE, !.local = FALSE, !.pre_local = FALSE,
              !.sum_of_distances = IF @ # <<>> THEN Some(ZeroSlice) ELSE @,
              !.sum_of_inverse_distances = IF @ # <<>> THEN Some(ZeroSlice) ELSE @,
              !.discounted_centralities = [k \in DOMAIN @ |-> ZeroSlice],
              !.last = graph.n * 10000,
              !.neighbourhood_function = <<graph.n * 10000>>,
              !.modified_counter = TrueBits]

\* run() up to the first test of its loop, called in the state from
RunFrom(from) ==
    /\ hbRun.pc = from
    /\ \E args \in RunArgs :
         LET upper_bound == Min2(args[1], graph.n)
         IN hbRun' = [pc |-> IF 0 < upper_bound THEN "loop" ELSE "returned",
                      given |-> args, upper_bound |-> upper_bound, threshold |-> args[2],
                      i |-> 0, runs |-> hbRun.runs + 1]
    /\ \E random \in RandomElements :
         /\ hb' = init(hb, random)
         /\ hbObs' = [hbObs EXCEPT !.call = <<>>,
                                   !.inits = Append(@, init(hb, random))]
    /\ hbCtx' = ContextReset(hb.granularity)
    /\ UNCHANGED <<graph, hbIn, hbWorker, OtherThanHB>>

\* the first run() of the instance
RunBegin == RunFrom("built")

\* one more run() of an instance whose run() has returned
RunAgain == hbRun.runs < HbMaxRuns /\ RunFrom("returned")

SeqRange(s) == {s[k] : k \in 1 .. Len(s)}

\* par_sort_unstable() then dedup()
SortDedup(s) == SortedSeq(SeqRange(s))

num_arcs == Cardinality(graph.arcs)

num_threads == Cardinality(Threads)

\* the granularity of an iteration
AdaptiveGranularity(h, local, modified_counters) ==
    IF num_threads > 1 /\ ~local /\ h.iteration > 0
    THEN RoundToWord(Min2(Max2(1, graph.n \div num_threads),
                          (h.granularity * graph.n) \div Max2(1, modified_counters)))
    ELSE h.granularity

\* the test of pre_local with the modified counters weighed against the arcs alone
FewModified_byArcs(modified_counters, num_nodes) ==
    modified_counters * num_nodes < num_arcs \div 10

\* few nodes were modified: the test of pre_local
FewModified(modified_counters, num_nodes) ==
    modified_counters < (num_nodes * num_nodes) \div (num_arcs * 10)

\* iterate() up to the broadcast of parallel_task
IterateBegin ==
    /\ hbRun.pc = "loop"
    /\ LET previous_was_systolic == hb.systolic
           previous_was_local == hb.local
           modified_counters == hbCtx.modified_counters
           num_nodes == graph.n
           systolic == hbIn.rev_graph /\ hb.iteration > 0 /\ modified_counters < num_nodes \div 4
           local == hb.pre_local
       IN IF systolic /\ num_arcs * 10 = 0
          THEN \* attempt to divide by zero
               /\ hbRun' = [hbRun EXCEPT !.pc = "panic"]
               /\ UNCHANGED <<hb, hbCtx, hbWorker, hbObs>>
          ELSE LET pre_local == systolic /\ FewModified(modified_counters, num_nodes)
                   cleared == IF previous_was_local
                              THEN [v \in Nodes(graph) |->
                                        IF v \in SeqRange(hb.local_checklist) THEN FALSE
                                        ELSE hb.modified_result_counter[v]]
                              ELSE FalseBits
               IN /\ hb' = [hb EXCEPT
                        !.systolic = systolic,
                        !.current = IF systolic THEN hb.last ELSE 0,
                        !.local = local,
                        !.pre_local = pre_local,
                        !.modified_result_counter = cleared,
                        !.local_checklist =
                            IF local THEN SortDedup(hb.local_next_must_be_checked) ELSE @,
                        !.local_next_must_be_checked = IF local THEN <<>> ELSE @,
                        !.next_must_be_checked =
                            IF ~local /\ systolic THEN FalseBits ELSE @,
                        !.must_be_checked =
                            IF ~local /\ systolic /\ ~previous_was_systolic THEN TrueBits ELSE @]
                  /\ hbCtx' = ContextReset(AdaptiveGranularity(hb, local, modified_counters))
                  /\ hbWorker' = [t \in Threads |-> [IdleWorkers[t] EXCEPT !.pc = "get"]]
                  /\ hbRun' = [hbRun EXCEPT !.pc = "parallel"]
                  /\ hbObs' = [hbObs EXCEPT
                        !.pre = hb.bits, !.result_writers = NoWriters,
                        !.flag_writers = NoWriters, !.drawn = <<>>,
                        !.modes = Append(@, <<systolic, local, pre_local>>),
                        !.deltas = Append(@, modified_counters)]
    /\ UNCHANGED <<graph, hbIn, OtherThanHB>>

\* ---- parallel_task
\* the cumulative outdegree: the number of arcs that leave the nodes below k
cumulative_outdegree(k) == Cardinality({a \in graph.arcs : a[1] < k})

\* cumulative_outdegree.succ(target): the first <<index, value>> with value >= target
CumulativeSucc(target) ==
    LET k == SetMin({j \in 0 .. graph.n : cumulative_outdegree(j) >= target})
    IN <<k, cumulative_outdegree(k)>>

arc_granularity == (num_arcs * hbCtx.granularity + graph.n - 1) \div graph.n

node_upper_limit == IF hb.local THEN Len(hb.local_checklist) ELSE graph.n

\* the chunks that a worker may draw in one iteration before the model stops following it
MaxDraws == 13

\* a worker between two chunks: it has a chunk to scan, or an empty one, or none is left
Dispatch(t, from, to, ctx) ==
    /\ hbCtx' = ctx
    /\ hbObs' = [hbObs EXCEPT !.drawn = IF from = node_upper_limit THEN @
                                        ELSE Append(@, <<from, to>>)]
    /\ hbWorker' = [hbWorker EXCEPT ![t].pc = IF from = node_upper_limit THEN "end"
                                              ELSE IF from < to THEN "work" ELSE "get",
                                    ![t].i = from, ![t].end = to]

\* "Get work"
GetWork(t) ==
    /\ hbRun.pc = "parallel"
    /\ hbWorker[t].pc = "get"
    /\ Len(hbObs.drawn) < MaxDraws
    /\ IF hb.local
       THEN LET from == Min2(hbCtx.cursor, node_upper_limit)
            IN Dispatch(t, from, Min2(from + 1, node_upper_limit),
                        [hbCtx EXCEPT !.cursor = @ + 1])
       ELSE LET next_node == hbCtx.arc_balanced_cursor[1]
                next_arc == hbCtx.arc_balanced_cursor[2]
                target == next_arc + arc_granularity
                moved == IF target >= num_arcs THEN <<node_upper_limit, next_arc>>
                         ELSE CumulativeSucc(target)
            IN IF next_node >= node_upper_limit
               THEN Dispatch(t, node_upper_limit, node_upper_limit, hbCtx)
               ELSE Dispatch(t, next_node, moved[1],
                             [hbCtx EXCEPT !.arc_balanced_cursor = moved])
    /\ UNCHANGED <<graph, hbIn, hb, hbRun, OtherThanHB>>

\* the counter is copied to a private cache before the first merge
NeedsCache_never(counter) == FALSE
NeedsCache(counter) == ~is_cached(counter)

\* the loop over the successors of a node: the counter and the current bank afterwards
RECURSIVE MergeSuccessors(_, _, _, _)
MergeSuccessors(counter, bank, node, succs) ==
    IF succs = <<>> THEN [counter |-> counter, bank |-> bank]
    ELSE LET succ == Head(succs)
         IN IF succ # node /\ hb.modified_counter[succ]
            THEN LET cached == IF NeedsCache(counter) THEN cache(counter, bank) ELSE counter
                     merged == merge_unsafe(cached, bank, succ)
                 IN MergeSuccessors(merged.counter, merged.bank, node, Tail(succs))
            ELSE MergeSuccessors(counter, bank, node, Tail(succs))

\* whether the result counter of an enumerated node is written
UpdatesResult_onlyModified(modified, was_modified) == modified
UpdatesResult(modified, was_modified) == modified \/ was_modified

SetAll(flags, S) == [v \in DOMAIN flags |-> flags[v] \/ v \in S]

do_centrality ==
    \/ hb.sum_of_distances # <<>>
    \/ hb.sum_of_inverse_distances # <<>>
    \/ hbIn.discount_functions # <<>>

\* sums of inverse distances are kept in units of 1/(10000 * InverseUnit), a multiple of
\* every distance that a run can reach: 27720 = lcm(1 .. 12)
InverseUnit == 27720

\* distances.lock().unwrap()[node] += new_value
Cumulate(distances, node, new_value) == [distances EXCEPT ![node] = @ + new_value]

\* "Do work" on one node of the chunk
DoWork(t) ==
    /\ hbRun.pc = "parallel"
    /\ hbWorker[t].pc = "work"
    /\ LET w == hbWorker[t]
           node == IF hb.local THEN hb.local_checklist[w.i + 1] ELSE w.i
           after == MergeSuccessors(get_counter(node), hb.bits, node, Successors(graph, node))
           counter == after.counter
           modified == is_changed(counter)
           post == estimate_count(Registers(counter, after.bank))
           pre == estimate_count(after.bank[node])
           delta == (IF ~hb.systolic THEN post ELSE 0)
                    + (IF modified /\ hb.systolic THEN post - pre ELSE 0)
           preds == Successors(Transpose(graph), node)
           pushed == IF modified /\ hb.pre_local
                     THEN <<node>> \o (IF hb.systolic THEN preds ELSE <<>>) ELSE <<>>
           flagged == IF modified /\ hb.systolic /\ ~hb.pre_local THEN SeqRange(preds) ELSE {}
           writes == UpdatesResult(modified, hb.modified_counter[node])
           stepped == [w EXCEPT !.i = @ + 1, !.pc = IF w.i + 1 = w.end THEN "get" ELSE "work"]
           gained == modified /\ do_centrality /\ post - pre > 0
       IN IF ~hb.systolic \/ hb.local \/ hb.must_be_checked[node]
          THEN /\ hb' = [hb EXCEPT
                     !.bits = after.bank,
                     !.sum_of_distances =
                         IF gained /\ @ # <<>>
                         THEN Some(Cumulate(@[1], node, (post - pre) * (hb.iteration + 1)))
                         ELSE @,
                     !.sum_of_inverse_distances =
                         IF gained /\ @ # <<>>
                         THEN Some(Cumulate(@[1], node,
                                            ((post - pre) * InverseUnit) \div (hb.iteration + 1)))
                         ELSE @,
                     !.discounted_centralities =
                         IF gained
                         THEN [k \in DOMAIN @ |->
                                  Cumulate(@[k], node,
                                           (post - pre) * hbIn.discount_functions[k][hb.iteration + 1])]
                         ELSE @,
                     !.local_next_must_be_checked = @ \o pushed,
                     !.modified_result_counter[node] = @ \/ modified,
                     !.next_must_be_checked = SetAll(@, flagged),
                     !.result_bits = IF writes THEN set_to(@, node, counter, after.bank) ELSE @]
               /\ hbWorker' = [hbWorker EXCEPT ![t] =
                     [stepped EXCEPT !.modified_counters = @ + (IF modified THEN 1 ELSE 0),
                                     !.neighbourhood_function_delta = @ + delta]]
               /\ hbObs' = [hbObs EXCEPT
                     !.result_writers[node] = IF writes THEN @ \cup {t} ELSE @,
                     !.flag_writers[node] = IF modified THEN @ \cup {t} ELSE @]
          ELSE /\ hb' = [hb EXCEPT
                     !.result_bits = IF hb.modified_counter[node]
                                     THEN set_to(@, node, get_counter(node), hb.bits) ELSE @]
               /\ hbWorker' = [hbWorker EXCEPT ![t] = stepped]
               /\ hbObs' = [hbObs EXCEPT
                     !.result_writers[node] = IF hb.modified_counter[node] THEN @ \cup {t} ELSE @]
    /\ UNCHANGED <<graph, hbIn, hbCtx, hbRun, OtherThanHB>>

\* the end of parallel_task: the thread adds its sums to the shared ones
TaskEnd(t) ==
    /\ hbRun.pc = "parallel"
    /\ hbWorker[t].pc = "end"
    /\ hb' = [hb EXCEPT !.current = @ + hbWorker[t].neighbourhood_function_delta]
    /\ hbCtx' = [hbCtx EXCEPT !.modified_counters = @ + hbWorker[t].modified_counters]
    /\ hbWorker' = [hbWorker EXCEPT ![t].pc = "done"]
    /\ UNCHANGED <<graph, hbIn, hbRun, hbObs, OtherThanHB>>

swap_backend(h) == [h EXCEPT !.bits = h.result_bits, !.result_bits = h.bits,
                             !.modified_counter = h.modified_result_counter,
                             !.modified_result_counter = h.modified_counter]

\* monotonicity is enforced on the value that is recorded
Monotone_raw(current, last_output) == current
Monotone(current, last_output) == IF current < last_output THEN last_output ELSE current

\* a fraction below 1 + t, t a fraction
BelowOnePlus(fraction, t) == fraction[1] * t[2] < (t[2] + t[1]) * fraction[2]

\* the test on the relative increment, of the iteration of loop index i
ThresholdReached_early(i, relative_increment, threshold) ==
    threshold # <<>> /\ BelowOnePlus(relative_increment, threshold)
ThresholdReached(i, relative_increment, threshold) ==
    threshold # <<>> /\ i > 3 /\ BelowOnePlus(relative_increment, threshold)

\* iterate() from the end of the broadcast, and run() up to the next test of its loop
IterateEnd ==
    /\ hbRun.pc = "parallel"
    /\ \A t \in Threads : hbWorker[t].pc = "done"
    /\ LET swapped == swap_backend(hb)
           last_output == hb.neighbourhood_function[Len(hb.neighbourhood_function)]
           current == Monotone(hb.current, last_output)
           relative_increment == <<current, last_output>>
           stops == \/ hbCtx.modified_counters = 0
                    \/ ThresholdReached(hbRun.i, relative_increment, hbRun.threshold)
                    \/ hbRun.i + 1 >= hbRun.upper_bound
       IN /\ hb' = [swapped EXCEPT
                 !.must_be_checked = IF hb.systolic THEN hb.next_must_be_checked ELSE @,
                 !.next_must_be_checked = IF hb.systolic THEN hb.must_be_checked ELSE @,
                 !.last = hb.current,
                 !.current = current,
                 !.relative_increment = relative_increment,
                 !.neighbourhood_function = Append(@, current),
                 !.iteration = @ + 1]
          /\ hbRun' = IF stops THEN [hbRun EXCEPT !.pc = "returned"]
                      ELSE [hbRun EXCEPT !.pc = "loop", !.i = @ + 1]
    /\ hbWorker' = IdleWorkers
    /\ UNCHANGED <<graph, hbIn, hbCtx, hbObs, OtherThanHB>>

NextHB ==
    \/ RunBegin
    \/ IterateBegin
    \/ \E t \in Threads : GetWork(t)
    \/ \E t \in Threads : DoWork(t)
    \/ \E t \in Threads : TaskEnd(t)
    \/ IterateEnd

(***************************************************************************)
(* HyperBall: the accessors, the weights and the centralities              *)
(*                                                                         *)
(* Instances built with and without weights and centralities, on graphs    *)
(* that include the empty one, run up to HbMaxRuns times; the accessors    *)
(* are called while no run is in progress.                                 *)
(***************************************************************************)
\* Ok(value) and Err(anyhow!(message)) of a Result
Ok(value) == [ok |-> TRUE, err |-> "", value |-> Some(value)]

Err(message) == [ok |-> FALSE, err |-> message, value |-> <<>>]

NotRun == Err("HyperBall was not run")

neighbourhood_function(h) ==
    IF h.iteration = 0 THEN NotRun ELSE Ok(h.neighbourhood_function)

sum_of_distances(h) ==
    IF h.iteration = 0 THEN NotRun
    ELSE IF h.sum_of_distances # <<>> THEN Ok(h.sum_of_distances[1])
    ELSE Err("Sum of distances were not requested")

harmonic_centralities(h) ==
    IF h.iteration = 0 THEN NotRun
    ELSE IF h.sum_of_inverse_distances # <<>> THEN Ok(h.sum_of_inverse_distances[1])
    ELSE Err("Sum of inverse distances were not requested")

discounted_centrality(h, at) ==
    IF h.iteration = 0 THEN NotRun
    ELSE IF at + 1 \in DOMAIN h.discounted_centralities
         THEN Ok(h.discounted_centralities[at + 1])
         ELSE Err("Discount centrality of index does not exist")

\* the reciprocal of the sum of distances as a fraction, 0 where the sum is 0
closeness_cetrality(h) ==
    IF h.iteration = 0 THEN NotRun
    ELSE IF h.sum_of_distances # <<>>
         THEN Ok([i \in Nodes(graph) |->
                     LET d == h.sum_of_distances[1][i]
                     IN IF d = 0 THEN <<0, 1>> ELSE <<10000, d>>])
         ELSE Err("Sum of distances were not requested")

\* count * count / d as a fraction in units of 1/10000, 1 where the sum is 0
lin_centrality(h) ==
    IF h.iteration = 0 THEN NotRun
    ELSE IF h.sum_of_distances # <<>>
         THEN Ok([i \in Nodes(graph) |->
                     LET d == h.sum_of_distances[1][i]
                         count == estimate_count(h.bits[i])
                     IN IF d = 0 THEN <<10000, 1>> ELSE <<count * count, d>>])
         ELSE Err("Sum of distances were not requested")

\* count * count - d in units of 1/100000000
nieminen_centrality(h) ==
    IF h.iteration = 0 THEN NotRun
    ELSE IF h.sum_of_distances # <<>>
         THEN Ok([i \in Nodes(graph) |->
                     LET d == h.sum_of_distances[1][i]
                         count == estimate_count(h.bits[i])
                     IN count * count - d * 10000])
         ELSE Err("Sum of distances were not requested")

reachable_nodes(h) ==
    IF h.iteration = 0 THEN NotRun
    ELSE Ok([n \in Nodes(graph) |-> estimate_count(h.bits[n])])

\* the indexes that discounted_centrality is called with
HbIndexes == {0, 1}

\* an accessor is called on the instance, which is not running, and returns ret
Access(op, at, ret) ==
    /\ hbRun.pc \in {"built", "returned"}
    /\ hbObs' = [hbObs EXCEPT !.call = Some([op |-> op, index |-> at, ret |-> ret])]
    /\ UNCHANGED <<graph, hbIn, hb, hbCtx, hbWorker, hbRun, OtherThanHB>>

NeighbourhoodFunction == Access("neighbourhood_function", 0, neighbourhood_function(hb))

SumOfDistances == Access("sum_of_distances", 0, sum_of_distances(hb))

HarmonicCentralities == Access("harmonic_centralities", 0, harmonic_centralities(hb))

DiscountedCentrality ==
    \E at \in HbIndexes :
        Access("discounted_centrality", at, discounted_centrality(hb, at))

ClosenessCentrality == Access("closeness_cetrality", 0, closeness_cetrality(hb))

LinCentrality == Access("lin_centrality", 0, lin_centrality(hb))

NieminenCentrality == Access("nieminen_centrality", 0, nieminen_centrality(hb))

ReachableNodes == Access("reachable_nodes", 0, reachable_nodes(hb))

\* the empty graph and a path of three nodes
HbApiGraphs == {[n |-> 0, arcs |-> {}], [n |-> 3, arcs |-> {<<0, 1>>, <<1, 2>>}]}

\* no weights, or weights on the path: two elements for its sink and none for the others
HbWeights(g) ==
    {<<>>} \cup (IF g.n = 3 THEN {Some((0 :> 0) @@ (1 :> 0) @@ (2 :> 2))} ELSE {})

\* the hash of the sink of the path is varied
HbApiHashings(g) == {[v \in Nodes(g) |-> IF v = 2 THEN x ELSE <<0, 1>>] : x \in Hashes}

\* a discount function, on the distances that a run can reach
SquareDiscount == [d \in 1 .. HbNumNodes + 1 |-> d * d]

\* what the builder is told to compute:
\* <<sum_of_distances, sum_of_inverse_distances, discount_functions>>
HbCentralities == {<<FALSE, FALSE, <<>>>>, <<TRUE, FALSE, <<>>>>,
                   <<FALSE, TRUE, <<SquareDiscount>>>>, <<TRUE, TRUE, <<SquareDiscount>>>>}

InitHBApi ==
    /\ graph \in HbApiGraphs
    /\ \E h \in HbApiHashings(graph) : \E w \in HbWeights(graph) : \E c \in HbCentralities :
            hbIn = [rev_graph |-> TRUE, hash |-> h, weights |-> w,
                    sum_of_distances |-> c[1], sum_of_inverse_distances |-> c[2],
                    discount_functions |-> c[3]]
    /\ hb = Build(1)
    /\ HbBuilt

NextHBApi ==
    \/ RunBegin
    \/ RunAgain
    \/ IterateBegin
    \/ \E t \in Threads : GetWork(t)
    \/ \E t \in Threads : DoWork(t)
    \/ \E t \in Threads : TaskEnd(t)
    \/ IterateEnd
    \/ NeighbourhoodFunction
    \/ SumOfDistances
    \/ HarmonicCentralities
    \/ DiscountedCentrality
    \/ ClosenessCentrality
    \/ LinCentrality
    \/ NieminenCentrality
    \/ ReachableNodes

(***************************************************************************)
(* Sequential depth-first visits and the algorithms on them                *)
(*                                                                         *)
(* acyclicity::run, top_sort::run, Kosaraju::compute_with_t and            *)
(* SymmSeq::compute_with_t drive a depth-first visit through their         *)
(* callbacks.  The visit emits Init, Previsit, Revisit and Completed; with *)
(* three states a node is unvisited, on the stack or completed, with two   *)
(* it is unvisited or completed.                                           *)
(***************************************************************************)
DfvMaxArcs == 4

DfvArcPool == (0 .. 2) \X (0 .. 2)

DfvSmallGraphs == {[n |-> 3, arcs |-> A] : A \in SubsetsUpTo(DfvArcPool, DfvMaxArcs)}

DfvEmpty == [n |-> 0, arcs |-> {}]

\* 0 before {1, 2} before 3
DfvDiamond == [n |-> 4, arcs |-> {<<0, 1>>, <<0, 2>>, <<1, 3>>, <<2, 3>>}]

\* two cycles of three nodes and an arc from the first to the second
DfvTwoCycles == [n |-> 6, arcs |-> {<<0, 1>>, <<1, 2>>, <<2, 0>>, <<2, 3>>, <<3, 4>>, <<4, 5>>,
                                    <<5, 3>>}]

\* a cycle that is entered from a node met after it, and left towards a sink
DfvLate == [n |-> 5, arcs |-> {<<0, 1>>, <<1, 0>>, <<1, 4>>, <<2, 0>>, <<3, 2>>, <<2, 3>>}]

\* a symmetric graph of two edges
DfvSymmetric == [n |-> 4, arcs |-> BothWays({<<0, 3>>, <<1, 2>>})]

DfvGraphs == DfvSmallGraphs \cup {DfvEmpty, DfvDiamond, DfvTwoCycles, DfvLate, DfvSymmetric}

\* x.wrapping_add(y) and x.wrapping_sub(y) on usize
usize_wrapping_add(x, y) == IF x > usize_MAX - y THEN x - (usize_MAX - y) - 1 ELSE x + y

usize_wrapping_sub(x, y) == IF x >= y THEN x - y ELSE usize_MAX - (y - x) + 1

\* x + y on usize: on overflow a build with overflow checks panics, one without them wraps
usize_add(x, y) ==
    IF x > usize_MAX - y
    THEN {[panic |-> TRUE, value |-> 0], [panic |-> FALSE, value |-> usize_wrapping_add(x, y)]}
    ELSE {[panic |-> FALSE, value |-> x + y]}

\* MaybeUninit::uninit()
Uninit == 0 - 1

\* ---- the events
Event(kind, curr, parent, rt, depth, back_edge) ==
    [kind |-> kind, curr |-> curr, parent |-> parent, root |-> rt, depth |-> depth,
     back_edge |-> back_edge]

\* ---- the callbacks
\* acyclicity::run: stop the visit as soon as a back edge is found
AcyclicityCallback_anyRevisit(a, event) ==
    IF event.kind = "Revisit" THEN [a EXCEPT !.stopped = TRUE] ELSE a

AcyclicityCallback(a, event) ==
    IF event.kind = "Revisit" /\ event.back_edge THEN [a EXCEPT !.stopped = TRUE] ELSE a

\* top_sort::run with the slot written when the node is first met
TopSortCallback_previsit(a, event) ==
    IF event.kind = "Previsit"
    THEN [a EXCEPT !.pos = a.pos - 1, !.topol_sort[a.pos - 1] = event.curr]
    ELSE a

\* top_sort::run: pos -= 1; topol_sort[pos].write(node)
TopSortCallback(a, event) ==
    IF event.kind = "Completed"
    THEN [a EXCEPT !.pos = a.pos - 1, !.topol_sort[a.pos - 1] = event.curr]
    ELSE a

\* Kosaraju::compute_with_t with the counter advanced at every node
KosarajuCallback_perNode(a, event) ==
    IF event.kind = "Previsit"
    THEN [a EXCEPT !.number_of_components = usize_wrapping_add(@, 1),
                   !.component[event.curr] = a.number_of_components]
    ELSE a

\* Kosaraju::compute_with_t, on the transpose
KosarajuCallback(a, event) ==
    CASE event.kind = "Init" ->
            [a EXCEPT !.number_of_components = usize_wrapping_add(@, 1)]
      [] event.kind = "Previsit" ->
            [a EXCEPT !.component[event.curr] = a.number_of_components]
      [] OTHER -> a

\* SymmSeq::compute_with_t
SymmSeqCallback(a, event) ==
    CASE event.kind = "Init" ->
            [a EXCEPT !.number_of_components = usize_wrapping_add(@, 1)]
      [] event.kind = "Previsit" ->
            [a EXCEPT !.component[event.curr] = a.number_of_components]
      [] OTHER -> a

\* the callback of the algorithm that drives the visit
CallbackOf(a, event) ==
    CASE a.name = "acyclicity" -> AcyclicityCallback(a, event)
      [] a.name = "top_sort" -> TopSortCallback(a, event)
      [] a.name = "kosaraju" /\ a.phase = "top_sort" -> TopSortCallback(a, event)
      [] a.name = "kosaraju" /\ a.phase = "components" -> KosarajuCallback(a, event)
      [] a.name = "symm_seq" -> SymmSeqCallback(a, event)

\* the visit delivers the events in turn, none after a callback asked to stop
RECURSIVE Emit(_, _)
Emit(a, events) ==
    IF events = <<>> \/ a.stopped THEN a
    ELSE Emit([CallbackOf(a, Head(events)) EXCEPT !.calls = @ + 1, !.event = <<Head(events)>>],
              Tail(events))

\* ---- the visit
\* Seq::new(graph)
NewVisit(on, three) ==
    [on |-> on, three |-> three, state |-> [v \in Nodes(graph) |-> "unvisited"],
     stack |-> <<>>, root |-> 0]

VisitedGraph == IF dfv.on = "graph" THEN graph ELSE Transpose(graph)

Frame(node, parent) == [node |-> node, parent |-> parent, succs |-> Successors(VisitedGraph, node)]

\* the state of a node that was just met
Discovered == IF dfv.three THEN "on_stack" ELSE "completed"

OnStack == {dfv.stack[k].node : k \in 1 .. Len(dfv.stack)}

Visiting == dfAlgo.pc = "visiting" /\ ~dfAlgo.stopped

\* the visit has returned: it went through all its roots, or a callback stopped it
VisitReturned ==
    /\ dfAlgo.pc = "visiting"
    /\ dfAlgo.stopped \/ (dfAlgo.roots = <<>> /\ dfv.stack = <<>>)

\* the next root: a root that is known is skipped without an event
VisitRoot ==
    /\ Visiting
    /\ dfv.stack = <<>>
    /\ dfAlgo.roots # <<>>
    /\ LET r == Head(dfAlgo.roots)
           a == [dfAlgo EXCEPT !.roots = Tail(@)]
       IN IF dfv.state[r] # "unvisited"
          THEN dfAlgo' = a /\ UNCHANGED dfv
          ELSE /\ dfAlgo' = Emit(a, <<Event("Init", r, r, r, 0, FALSE),
                                      Event("Previsit", r, r, r, 0, FALSE)>>)
               /\ dfv' = [dfv EXCEPT !.root = r, !.state[r] = Discovered,
                                     !.stack = <<Frame(r, r)>>]
    /\ UNCHANGED <<graph, OtherThanDFV>>

\* the next successor of the node on the top of the stack
VisitArc ==
    /\ Visiting
    /\ dfv.stack # <<>>
    /\ dfv.stack[Len(dfv.stack)].succs # <<>>
    /\ LET depth == Len(dfv.stack)
           top == dfv.stack[depth]
           succ == Head(top.succs)
           rest == [dfv.stack EXCEPT ![depth].succs = Tail(@)]
       IN IF dfv.state[succ] = "unvisited"
          THEN /\ dfAlgo' = Emit(dfAlgo, <<Event("Previsit", succ, top.node, dfv.root, depth,
                                                 FALSE)>>)
               /\ dfv' = [dfv EXCEPT !.state[succ] = Discovered,
                                     !.stack = Append(rest, Frame(succ, top.node))]
          ELSE /\ dfAlgo' = Emit(dfAlgo, <<Event("Revisit", succ, top.node, dfv.root, depth,
                                                 dfv.state[succ] = "on_stack")>>)
               /\ dfv' = [dfv EXCEPT !.stack = rest]
    /\ UNCHANGED <<graph, OtherThanDFV>>

\* the node on the top of the stack has no successor left
VisitCompleted ==
    /\ Visiting
    /\ dfv.stack # <<>>
    /\ dfv.stack[Len(dfv.stack)].succs = <<>>
    /\ LET depth == Len(dfv.stack)
           top == dfv.stack[depth]
       IN /\ dfAlgo' = Emit(dfAlgo, <<Event("Completed", top.node, top.parent, dfv.root,
                                            depth - 1, FALSE)>>)
          /\ dfv' = [dfv EXCEPT !.state[top.node] = "completed",
                                !.stack = SubSeq(dfv.stack, 1, depth - 1)]
    /\ UNCHANGED <<graph, OtherThanDFV>>

\* ---- the algorithms
NoAlgo == [name |-> "none", pc |-> "idle", phase |-> "", roots |-> <<>>, stopped |-> FALSE,
           calls |-> 0, event |-> <<>>, pos |-> 0, topol_sort |-> <<>>,
           number_of_components |-> 0, component |-> <<>>, acyclic |-> <<>>,
           n_of_components |-> <<>>]

\* visit_all, visit(): the roots are the nodes in increasing order
AllNodes == SortedSeq(Nodes(graph))

Symmetric(g) == \A a \in g.arcs : <<a[2], a[1]>> \in g.arcs

InitDFV ==
    /\ graph \in DfvGraphs
    /\ dfv = NewVisit("graph", FALSE)
    /\ dfAlgo = NoAlgo
    /\ OthersIdleDFV

Start(a, visit) ==
    /\ dfAlgo.pc = "idle"
    /\ dfAlgo' = a
    /\ dfv' = visit
    /\ UNCHANGED <<graph, OtherThanDFV>>

Return(a) ==
    /\ VisitReturned
    /\ dfAlgo' = a
    /\ UNCHANGED <<graph, dfv, OtherThanDFV>>

\* acyclicity::run
RunAcyclicity ==
    Start([NoAlgo EXCEPT !.name = "acyclicity", !.pc = "visiting", !.roots = AllNodes],
          NewVisit("graph", TRUE))

ReturnAcyclicity ==
    /\ dfAlgo.name = "acyclicity"
    /\ Return([dfAlgo EXCEPT !.pc = "returned", !.acyclic = <<~dfAlgo.stopped>>])

\* top_sort::run
TopSortLocals(a) == [a EXCEPT !.pos = graph.n, !.topol_sort = [k \in Nodes(graph) |-> Uninit],
                              !.roots = AllNodes]

RunTopSort ==
    Start(TopSortLocals([NoAlgo EXCEPT !.name = "top_sort", !.pc = "visiting"]),
          NewVisit("graph", FALSE))

ReturnTopSort ==
    /\ dfAlgo.name = "top_sort"
    /\ Return([dfAlgo EXCEPT !.pc = "returned"])

\* Kosaraju::compute_with_t: top_sort::run(&graph), ..
ComputeKosaraju ==
    Start(TopSortLocals([NoAlgo EXCEPT !.name = "kosaraju", !.pc = "visiting",
                                       !.phase = "top_sort"]),
          NewVisit("graph", FALSE))

\* .. then the visits of the transpose from the nodes of top_sort, in its order, ..
KosarajuVisitTranspose ==
    /\ dfAlgo.name = "kosaraju"
    /\ dfAlgo.phase = "top_sort"
    /\ VisitReturned
    /\ dfAlgo' = [dfAlgo EXCEPT !.phase = "components",
                                !.number_of_components = usize_wrapping_sub(0, 1),
                                !.component = [v \in Nodes(graph) |-> 0],
                                !.roots = [k \in 1 .. graph.n |-> dfAlgo.topol_sort[k - 1]]]
    /\ dfv' = NewVisit("transpose", FALSE)
    /\ UNCHANGED <<graph, OtherThanDFV>>

\* n_of_components: number_of_components + 1
Counted(a) ==
    {IF sum.panic THEN [a EXCEPT !.pc = "panic"]
     ELSE [a EXCEPT !.pc = "returned", !.n_of_components = <<sum.value>>] :
        sum \in usize_add(a.number_of_components, 1)}

\* .. and the Kosaraju that is returned
ReturnKosaraju ==
    /\ dfAlgo.name = "kosaraju"
    /\ dfAlgo.phase = "components"
    /\ \E a \in Counted(dfAlgo) : Return(a)

\* SymmSeq::compute_with_t, of a symmetric graph
ComputeSymmSeq ==
    /\ Symmetric(graph)
    /\ Start([NoAlgo EXCEPT !.name = "symm_seq", !.pc = "visiting", !.roots = AllNodes,
                            !.number_of_components = usize_wrapping_sub(0, 1),
                            !.component = [v \in Nodes(graph) |-> Uninit]],
             NewVisit("graph", FALSE))

ReturnSymmSeq ==
    /\ dfAlgo.name = "symm_seq"
    /\ \E a \in Counted(dfAlgo) : Return(a)

NextDFV ==
    \/ RunAcyclicity
    \/ ReturnAcyclicity
    \/ RunTopSort
    \/ ReturnTopSort
    \/ ComputeKosaraju
    \/ KosarajuVisitTranspose
    \/ ReturnKosaraju
    \/ ComputeSymmSeq
    \/ ReturnSymmSeq
    \/ VisitRoot
    \/ VisitArc
    \/ VisitCompleted

(***************************************************************************)
(* The radius lock of backwards_step_sum_sweep and all_cc_upper_bound      *)
(***************************************************************************)
RadNumNodes == 3
RadMaxEcc == 2

\* self.radius_high and self.radius_vertex when the step begins: those of a new computer, or
\* an eccentricity and its node
RadiusBefore ==
    {[radius_high |-> usize_MAX, radius_vertex |-> 0]}
        \cup {[radius_high |-> h, radius_vertex |-> v] : h \in 0 .. RadMaxEcc, v \in 0 .. RadNumNodes - 1}

\* the nodes whose callback reaches the radius, each with the eccentricity it offers
\* (distance in the backward visit, new_ecc in all_cc_upper_bound)
RadiusTasks ==
    UNION {[C -> {[pc |-> "test", distance |-> d, update_radius |-> FALSE] : d \in 0 .. RadMaxEcc}] :
              C \in SUBSET (0 .. RadNumNodes - 1)}

\* let radius = RwLock::new((self.radius_high, self.radius_vertex)), in either step
InitRadius ==
    /\ graph = [n |-> RadNumNodes, arcs |-> {}]
    /\ radPc \in {"backward", "all_cc"}
    /\ radSelf \in RadiusBefore
    /\ radBefore = radSelf
    /\ radius_lock = <<radSelf.radius_high, radSelf.radius_vertex>>
    /\ radTask \in RadiusTasks
    /\ OthersIdleRadius

\* the write of a larger eccentricity over a smaller one, were the test not made again
Retest_unchecked(ecc, lock) == TRUE

\* if distance < radius_lock.0, under the write lock
Retest(ecc, lock) == ecc < lock[1]

\* the block that holds the read lock: update_radius = distance < radius_lock.0
ReadTest(node) ==
    /\ radTask[node].pc = "test"
    /\ LET update_radius == radTask[node].distance < radius_lock[1]
       IN radTask' = [radTask EXCEPT ![node].update_radius = update_radius,
                                     ![node].pc = IF update_radius THEN "retest" ELSE "done"]
    /\ UNCHANGED <<graph, radius_lock, radSelf, radBefore, radPc>>
    /\ UNCHANGED OtherThanRadius

\* the block that holds the write lock
WriteRetest(node) ==
    /\ radTask[node].pc = "retest"
    /\ radius_lock' = IF Retest(radTask[node].distance, radius_lock)
                      THEN <<radTask[node].distance, node>> ELSE radius_lock
    /\ radTask' = [radTask EXCEPT ![node].pc = "done"]
    /\ UNCHANGED <<graph, radSelf, radBefore, radPc>>
    /\ UNCHANGED OtherThanRadius

\* the callbacks of the backward visit of backwards_step_sum_sweep
BackwardReadTest == radPc = "backward" /\ \E node \in DOMAIN radTask : ReadTest(node)
BackwardWriteRetest == radPc = "backward" /\ \E node \in DOMAIN radTask : WriteRetest(node)

\* the closures of the parallel loop of all_cc_upper_bound
AllCCReadTest == radPc = "all_cc" /\ \E node \in DOMAIN radTask : ReadTest(node)
AllCCWriteRetest == radPc = "all_cc" /\ \E node \in DOMAIN radTask : WriteRetest(node)

\* (self.radius_high, self.radius_vertex) = radius.into_inner().unwrap(), when the visit or
\* the parallel loop is over
RadiusIntoInner ==
    /\ radPc \in {"backward", "all_cc"}
    /\ \A node \in DOMAIN radTask : radTask[node].pc = "done"
    /\ radSelf' = [radius_high |-> radius_lock[1], radius_vertex |-> radius_lock[2]]
    /\ radPc' = "joined"
    /\ UNCHANGED <<graph, radius_lock, radTask, radBefore>>
    /\ UNCHANGED OtherThanRadius

NextRadius ==
    \/ BackwardReadTest
    \/ BackwardWriteRetest
    \/ AllCCReadTest
    \/ AllCCWriteRetest
    \/ RadiusIntoInner

(***************************************************************************)
(* compute_dist_pivot_from_graph (algo/exact_sum_sweep/computer.rs)        *)
(*                                                                         *)
(* The threads of the broadcast draw the pivots one by one from            *)
(* current_index; each visits the component of its pivot breadth first,    *)
(* level by level, the arcs of a level in any order.                       *)
(***************************************************************************)
DpMaxArcs == 6

DpNodes == 0 .. 4

\* the arcs the graphs are made of: a cycle 0 -> 1 -> 2 -> 0, arcs both ways between 0 and
\* 3, arcs from the cycle to 3 and back, and an arc to 4
DpArcPool == {<<0, 1>>, <<1, 2>>, <<2, 0>>, <<0, 3>>, <<3, 0>>, <<1, 3>>, <<3, 2>>, <<3, 4>>}

DpGraphs == {[n |-> Cardinality(DpNodes), arcs |-> A] : A \in SubsetsUpTo(DpArcPool, DpMaxArcs)}

\* pivot: a vertex of every component, at the index of the component
PivotChoices(c) ==
    {p \in [SccComponents(c) -> DOMAIN c.comp] : \A k \in SccComponents(c) : c.comp[p[k]] = k}

\* a thread that has not yet drawn an index
DpFresh == [pc |-> "fetch", current_pivot_index |-> 0, visited |-> {}, frontier |-> {},
            next_frontier |-> {}, dist |-> 0]

InitDistPivot ==
    /\ graph \in DpGraphs
    /\ SccBuilt(graph)
    /\ dpPivot \in PivotChoices(scc)
    /\ dpIndex = 0
    /\ dpDist = [v \in Nodes(graph) |-> 0]
    /\ dpEcc = [k \in SccComponents(scc) |-> 0]
    /\ dpWorker = [t \in Threads |-> DpFresh]
    /\ dpObs = [claims |-> [k \in SccComponents(scc) |-> 0],
                writes |-> [v \in Nodes(graph) |-> 0]]
    /\ OthersIdleDistPivot

\* the pivot that thread t is visiting from, and its component
DpPivotOf(t) == dpPivot[dpWorker[t].current_pivot_index]

pivot_component(t) == scc.comp[DpPivotOf(t)]

\* the filter of the visit: components[curr] == pivot_component
InPivotComponent_any(curr, component) == TRUE
InPivotComponent(curr, component) == scc.comp[curr] = component

\* component_ecc_pivot.store(distance, Ordering::Relaxed)
StoreEcc(ecc, component, d) == [ecc EXCEPT ![component] = d]

\* the callback on Event::Unknown: dist_pivot_mut.write_once(curr, distance), then the store
DpCallback(t, curr, d) ==
    /\ dpDist' = [dpDist EXCEPT ![curr] = d]
    /\ dpEcc' = StoreEcc(dpEcc, pivot_component(t), d)
    /\ dpObs' = [dpObs EXCEPT !.writes[curr] = @ + 1]

\* the arcs that leave the nodes of S
DpOutArcs(S) == {a \in graph.arcs : a[1] \in S}

\* current_index.fetch_add(1, Ordering::Relaxed), and the test of pivot.get()
DpFetch(t) ==
    /\ dpWorker[t].pc = "fetch"
    /\ dpIndex' = dpIndex + 1
    /\ IF dpIndex \in DOMAIN dpPivot
       THEN /\ dpWorker' = [dpWorker EXCEPT ![t].pc = "claimed", ![t].current_pivot_index = dpIndex]
            /\ dpObs' = [dpObs EXCEPT !.claims[dpIndex] = @ + 1]
       ELSE /\ dpWorker' = [dpWorker EXCEPT ![t].pc = "done", ![t].current_pivot_index = dpIndex]
            /\ UNCHANGED dpObs
    /\ UNCHANGED <<graph, sccVars, dpPivot, dpDist, dpEcc, OtherThanDistPivot>>

\* visit_filtered up to its first level: the root is filtered, marked and passed to the callback
DpBeginVisit(t) ==
    /\ dpWorker[t].pc = "claimed"
    /\ LET p == DpPivotOf(t)
       IN IF p \in dpWorker[t].visited \/ ~InPivotComponent(p, pivot_component(t))
          THEN /\ dpWorker' = [dpWorker EXCEPT ![t].pc = "fetch"]
               /\ UNCHANGED <<dpDist, dpEcc, dpObs>>
          ELSE /\ DpCallback(t, p, 0)
               /\ dpWorker' = [dpWorker EXCEPT ![t].pc = "level", ![t].visited = @ \cup {p},
                                               ![t].frontier = DpOutArcs({p}),
                                               ![t].next_frontier = {}, ![t].dist = 1]
    /\ UNCHANGED <<graph, sccVars, dpPivot, dpIndex, OtherThanDistPivot>>

\* an arc out of the frontier is examined: a successor that passes the filter and was not
\* visited is marked, passed to the callback with the distance of the level, and pushed
DpExamineArc(t, a) ==
    /\ dpWorker[t].pc = "level"
    /\ a \in dpWorker[t].frontier
    /\ IF InPivotComponent(a[2], pivot_component(t)) /\ a[2] \notin dpWorker[t].visited
       THEN /\ DpCallback(t, a[2], dpWorker[t].dist)
            /\ dpWorker' = [dpWorker EXCEPT ![t].frontier = @ \ {a},
                                            ![t].visited = @ \cup {a[2]},
                                            ![t].next_frontier = @ \cup {a[2]}]
       ELSE /\ dpWorker' = [dpWorker EXCEPT ![t].frontier = @ \ {a}]
            /\ UNCHANGED <<dpDist, dpEcc, dpObs>>
    /\ UNCHANGED <<graph, sccVars, dpPivot, dpIndex, OtherThanDistPivot>>

\* the level is over: the frontiers are swapped, or the visit returns and the thread goes
\* back to current_index
DpLevelEnd(t) ==
    /\ dpWorker[t].pc = "level"
    /\ dpWorker[t].frontier = {}
    /\ IF dpWorker[t].next_frontier = {}
       THEN dpWorker' = [dpWorker EXCEPT ![t].pc = "fetch"]
       ELSE dpWorker' = [dpWorker EXCEPT ![t].frontier = DpOutArcs(dpWorker[t].next_frontier),
                                         ![t].next_frontier = {}, ![t].dist = @ + 1]
    /\ UNCHANGED <<graph, sccVars, dpPivot, dpIndex, dpDist, dpEcc, dpObs, OtherThanDistPivot>>

NextDistPivot ==
    \/ \E t \in Threads : DpFetch(t)
    \/ \E t \in Threads : DpBeginVisit(t)
    \/ \E t \in Threads : \E a \in graph.arcs : DpExamineArc(t, a)
    \/ \E t \in Threads : DpLevelEnd(t)

SpecDistPivot == InitDistPivot /\ [][NextDistPivot]_vars

(***************************************************************************)
(* Sequential breadth-first visit (algo/bfv/single_thread.rs)              *)
(***************************************************************************)
StMaxArcs == 3

StArcPool == {<<0, 1>>, <<0, 3>>, <<1, 2>>, <<2, 0>>, <<2, 2>>, <<3, 1>>, <<3, 2>>, <<1, 0>>}

\* the graphs visited: on four nodes, and the graph of one node with and without its loop
StGraphs ==
    {[n |-> 4, arcs |-> A] : A \in SubsetsUpTo(StArcPool, StMaxArcs)}
        \cup {[n |-> 1, arcs |-> {}], [n |-> 1, arcs |-> {<<0, 0>>}]}

\* into_iter(): the cursor is at start, no node is visited, the queue is empty
into_iter(g, from) == [start |-> from, cursor |-> from, visited |-> {}, queue |-> <<>>]

\* the loop over the visited nodes at the cursor: the cursor stops on a node that is not
\* visited, or next() returns None when the cursor is back on start
RECURSIVE Advance(_, _)
Advance(it, n) ==
    IF it.cursor \notin it.visited THEN [iter |-> it, found |-> TRUE]
    ELSE LET moved == [it EXCEPT !.cursor = (it.cursor + 1) % n]
         IN IF moved.cursor = moved.start THEN [iter |-> moved, found |-> FALSE]
            ELSE Advance(moved, n)

RECURSIVE Enqueue(_, _)
\* the successors pushed whether or not they are visited
Enqueue_all(it, succs) ==
    [it EXCEPT !.queue = @ \o succs, !.visited = @ \cup {succs[k] : k \in DOMAIN succs}]

\* the loop over the successors: those not visited are pushed and marked
Enqueue(it, succs) ==
    IF succs = <<>> THEN it
    ELSE LET successor == Head(succs)
         IN IF successor \notin it.visited
            THEN Enqueue([it EXCEPT !.queue = Append(@, successor),
                                    !.visited = @ \cup {successor}], Tail(succs))
            ELSE Enqueue(it, Tail(succs))

\* next(): the iterator it becomes, the item it returns, whether the queue was empty
next(g, it) ==
    IF it.queue # <<>>
    THEN [iter |-> Enqueue([it EXCEPT !.queue = Tail(@)], Successors(g, Head(it.queue))),
          item |-> Some(Head(it.queue)), restart |-> FALSE]
    ELSE LET a == Advance(it, g.n)
         IN IF ~a.found THEN [iter |-> a.iter, item |-> <<>>, restart |-> TRUE]
            ELSE [iter |-> Enqueue([a.iter EXCEPT !.visited = @ \cup {a.iter.cursor}],
                                   Successors(g, a.iter.cursor)),
                  item |-> Some(a.iter.cursor), restart |-> TRUE]

\* the calls of next() that are followed after the first None
StMaxNones == 2

\* with_start(graph, factory, start), then either into_iter() or visit()
InitSeq ==
    /\ graph \in StGraphs
    /\ \E from \in Nodes(graph) : stIter = into_iter(graph, from)
    /\ stPc \in {"iterating", "visiting"}
    /\ stOut = <<>>
    /\ stNones = 0
    /\ stResult = 0
    /\ OthersIdleSeq

\* what a call of next() leaves
Yield(r) ==
    /\ stIter' = r.iter
    /\ stOut' = IF r.item = <<>> THEN stOut
                ELSE Append(stOut, [node |-> r.item[1], restart |-> r.restart])
    /\ stNones' = IF r.item = <<>> THEN stNones + 1 ELSE stNones

\* a call of next() on the iterator
IteratorNext ==
    /\ stPc = "iterating"
    /\ stNones < StMaxNones
    /\ Yield(next(graph, stIter))
    /\ UNCHANGED <<graph, stPc, stResult>>
    /\ UNCHANGED OtherThanSeq

\* a round of the loop of visit(): for node in self { accumulate_result(..) }
VisitNext ==
    /\ stPc = "visiting"
    /\ LET r == next(graph, stIter)
       IN /\ Yield(r)
          /\ stResult' = IF r.item = <<>> THEN stResult ELSE stResult + 1
          /\ stPc' = IF r.item = <<>> THEN "returned" ELSE stPc
    /\ UNCHANGED graph
    /\ UNCHANGED OtherThanSeq

NextSeq ==
    \/ IteratorNext
    \/ VisitNext

(***************************************************************************)
(* HyperLogLog counter arrays (utils/hyper_log_log.rs)                     *)
(*                                                                         *)
(* Memory is little-endian, so the backend of an array is one string of    *)
(* bits and a word read at a byte offset is a window on it.  A string of   *)
(* bits is the set of the positions of its ones; a word is such a set      *)
(* within 0 .. HllWordBits - 1, a slice of words a sequence of them.       *)
(***************************************************************************)
\* W::BITS of the word type of the arrays (u32)
HllWordBits == 32

\* register_size_from_number_of_elements for the default upper bound on the elements
register_size == 5

\* the counters of an array
HllNumCounters == 3

WordRange == 0 .. (HllWordBits - 1)

counter_size_in_bits == NumRegisters * register_size

\* words_per_counter(): the words of msb_mask
words_per_counter == (counter_size_in_bits + HllWordBits - 1) \div HllWordBits

\* the k-th word (from 0) read at bit offset b of a string of bits
WordAt(bits, b, k) == {p - (b + k * HllWordBits) : p \in {q \in bits : q >= b + k * HllWordBits
                                                           /\ q < b + (k + 1) * HllWordBits}}

\* the slice of n words read at bit offset b
SliceAt(bits, b, n) == [k \in 1 .. n |-> WordAt(bits, b, k - 1)]

\* the string of bits that a slice of words holds
SliceBits(s) == UNION {{p + (k - 1) * HllWordBits : p \in s[k]} : k \in 1 .. Len(s)}

\* the bits of the value v stored in register i of a counter
RegisterBits(i, v) == {i * register_size + b : b \in {c \in 0 .. (register_size - 1) :
                                                        (v \div (2 ^ c)) % 2 = 1}}

\* the value of register i of a counter given as a string of bits
RegisterValue(bits, i) ==
    LET S == {b \in 0 .. (register_size - 1) : (i * register_size + b) \in bits}
        RECURSIVE Sum(_)
        Sum(T) == IF T = {} THEN 0 ELSE LET b == CHOOSE c \in T : TRUE
                                        IN 2 ^ b + Sum(T \ {b})
    IN Sum(S)

\* msb_mask and lsb_mask: the highest and the lowest bit of every register
msb_mask == SliceAt(UNION {RegisterBits(i, 2 ^ (register_size - 1)) : i \in 0 .. (NumRegisters - 1)},
                    0, words_per_counter)

lsb_mask == SliceAt(UNION {RegisterBits(i, 1) : i \in 0 .. (NumRegisters - 1)},
                    0, words_per_counter)

\* residual_mask: W::MAX shifted right by the bits of the last word beyond the counter
residual_mask ==
    IF counter_size_in_bits % HllWordBits # 0
    THEN LET residual_bits == ((counter_size_in_bits \div HllWordBits) + 1) * HllWordBits
                              - counter_size_in_bits
         IN 0 .. (HllWordBits - 1 - residual_bits)
    ELSE WordRange

\* ---- operations on words
WAnd(a, b) == a \cap b
WOr(a, b) == a \cup b
WXor(a, b) == (a \ b) \cup (b \ a)
WNot(a) == WordRange \ a
WShr(a, n) == {p - n : p \in {q \in a : q >= n}}
WShl(a, n) == {p + n : p \in {q \in a : q + n < HllWordBits}}

\* a < b on unsigned words
WLess(a, b) == LET d == WXor(a, b) IN d # {} /\ SetMax(d) \in b

\* a.wrapping_sub(b): the bits from position k on, given the borrow into position k
RECURSIVE SubFrom(_, _, _, _)
SubFrom(a, b, k, borrow) ==
    IF k = HllWordBits THEN {}
    ELSE LET ak == k \in a
             bk == k \in b
             bit == (ak # bk) # borrow
             out == (~ak /\ (bk \/ borrow)) \/ (bk /\ borrow)
         IN (IF bit THEN {k} ELSE {}) \cup SubFrom(a, b, k + 1, out)

wrapping_sub(a, b) == SubFrom(a, b, 0, FALSE)

\* subtract(x, y): the multiple precision subtraction, the words of x from position k on
RECURSIVE SubtractFrom(_, _, _, _)
SubtractFrom(x, y, k, borrow) ==
    IF k > Len(x) THEN <<>>
    ELSE LET x0 == x[k]
             x1 == IF ~borrow THEN x0 ELSE wrapping_sub(x0, {0})
             out == IF ~borrow THEN WLess(x0, y[k])
                    ELSE IF x0 # {} THEN WLess(x1, y[k])
                    ELSE borrow
         IN <<wrapping_sub(x1, y[k])>> \o SubtractFrom(x, y, k + 1, out)

subtract(x, y) == SubtractFrom(x, y, 1, FALSE)
\* ---- the word-parallel merge
\* the words of the slice s but the last, and the last word
ButLast(s) == SubSeq(s, 1, Len(s) - 1)

LastWord(s) == s[Len(s)]

\* x and y with the residual bits of their last words masked away
MaskedLast(s) == [s EXCEPT ![Len(s)] = WAnd(@, residual_mask)]

\* z = ((((y | H_r) - (x & !H_r)) | (y ^ x)) ^ (y | !x)) & H_r, on masked x and y
Comparison(x, y) ==
    LET acc == subtract([k \in 1 .. Len(x) |-> WOr(y[k], msb_mask[k])],
                        [k \in 1 .. Len(x) |-> WAnd(x[k], WNot(msb_mask[k]))])
    IN [k \in 1 .. Len(x) |->
            WAnd(WXor(WOr(acc[k], WXor(y[k], x[k])), WOr(y[k], WNot(x[k]))), msb_mask[k])]

\* (((z >> r-1 | H_r) - L_r) | H_r) ^ z: all ones on the registers where y is larger
Selection(acc) ==
    LET n == Len(acc)
        shifted == [k \in 1 .. n |->
                       IF k < n
                       THEN WOr(WOr(WShr(acc[k], register_size - 1),
                                    WShl(acc[k + 1], HllWordBits - (register_size - 1))),
                                msb_mask[k])
                       ELSE WOr(WShr(acc[n], register_size - 1), msb_mask[n])]
        mask == subtract(shifted, lsb_mask)
    IN [k \in 1 .. n |-> WXor(WOr(mask[k], msb_mask[k]), acc[k])]

\* the words of x after merge_unsafe has selected the larger registers of x and y
MergeWords(x, y) ==
    LET n == Len(x)
        xm == MaskedLast(x)
        ym == MaskedLast(y)
        mask == Selection(Comparison(xm, ym))
    IN [k \in 1 .. n |->
            IF k < n THEN WXor(x[k], WAnd(WXor(x[k], y[k]), mask[k]))
            ELSE WOr(WAnd(x[n], WNot(residual_mask)),
                     WXor(xm[n], WAnd(WXor(xm[n], ym[n]), mask[n])))]

\* ---- the arrays and their counters
HllArrays == {"a", "b"}

\* get_counter(index) of an array: offset is index * num_registers, nothing is cached
Counter_get_counter(array, i) == [array |-> array, index |-> i, cached_bits |-> <<>>]

Counter_is_cached(c) == c.cached_bits # <<>>

Counter_is_changed(c) == IF c.cached_bits # <<>> THEN c.cached_bits[2] ELSE FALSE

\* bits_offset = self.offset * register_size, and the byte it falls on
bits_offset(c) == (c.index * NumRegisters) * register_size

byte_offset(c) == bits_offset(c) \div 8

\* pointer.is_aligned() of the backend pointer moved by byte_offset: the backend starts
\* at a word boundary
is_aligned(c) == byte_offset(c) % (HllWordBits \div 8) = 0

\* copy_nonoverlapping of n bits of the string src to position b of the string bits
CopyBits(bits, b, n, src) == {p \in bits : p < b \/ p >= b + n} \cup {b + p : p \in {q \in src : q < n}}

\* what a call leaves: the backends, the counter it was made on, what it returned (<<>>
\* for nothing) and whether it panicked
Outcome(B, c, ret, panic) == [bits |-> B, counter |-> c, ret |-> ret, panic |-> panic]

\* cache(): copies words_per_counter whole words from the counter's first byte on
Counter_cache(B, c) ==
    [c EXCEPT !.cached_bits = <<SliceAt(B[c.array], bits_offset(c), words_per_counter), FALSE>>]

\* commit_changes(keep_cached) copying the whole words of the cache
commit_changes_words(B, c, keep_cached) ==
    IF ~Counter_is_cached(c) \/ ~Counter_is_changed(c)
    THEN Outcome(B, c, <<>>, TRUE)
    ELSE LET cached == c.cached_bits[1]
             bits_to_write == words_per_counter * HllWordBits
             written == [B EXCEPT ![c.array] = CopyBits(@, bits_offset(c), bits_to_write,
                                                        SliceBits(cached))]
         IN Outcome(written,
                    IF keep_cached THEN [c EXCEPT !.cached_bits[2] = FALSE]
                    ELSE [c EXCEPT !.cached_bits = <<>>],
                    <<>>, FALSE)

\* commit_changes(keep_cached)
commit_changes(B, c, keep_cached) ==
    IF ~Counter_is_cached(c) \/ ~Counter_is_changed(c)
    THEN Outcome(B, c, <<>>, TRUE)
    ELSE LET cached == c.cached_bits[1]
             bits_to_write == NumRegisters * register_size
             written == [B EXCEPT ![c.array] = CopyBits(@, bits_offset(c), bits_to_write,
                                                        SliceBits(cached))]
         IN Outcome(written,
                    IF keep_cached THEN [c EXCEPT !.cached_bits[2] = FALSE]
                    ELSE [c EXCEPT !.cached_bits = <<>>],
                    <<>>, FALSE)

sync_to_backend(B, c) == commit_changes(B, c, TRUE)

\* get_register(index): from the cache if there is one, from the backend otherwise
get_register(B, c, i) ==
    IF Counter_is_cached(c) THEN RegisterValue(SliceBits(c.cached_bits[1]), i)
    ELSE RegisterValue(B[c.array], c.index * NumRegisters + i)

\* set_register(index, new_value) that writes a cached counter through to the backend
set_register_through(B, c, i, new_value) ==
    LET backend == [B EXCEPT ![c.array] =
                       CopyBits(@, (c.index * NumRegisters + i) * register_size,
                                register_size, RegisterBits(0, new_value))]
    IN IF Counter_is_cached(c)
       THEN IF get_register(B, c, i) # new_value
            THEN Outcome(backend,
                         [c EXCEPT !.cached_bits =
                             <<SliceAt(CopyBits(SliceBits(c.cached_bits[1]), i * register_size,
                                                register_size, RegisterBits(0, new_value)),
                                       0, words_per_counter), TRUE>>],
                         <<>>, FALSE)
            ELSE Outcome(B, c, <<>>, FALSE)
       ELSE Outcome(backend, c, <<>>, FALSE)

\* set_register(index, new_value)
set_register(B, c, i, new_value) ==
    IF Counter_is_cached(c)
    THEN IF get_register(B, c, i) # new_value
         THEN Outcome(B,
                      [c EXCEPT !.cached_bits =
                          <<SliceAt(CopyBits(SliceBits(c.cached_bits[1]), i * register_size,
                                             register_size, RegisterBits(0, new_value)),
                                    0, words_per_counter), TRUE>>],
                      <<>>, FALSE)
         ELSE Outcome(B, c, <<>>, FALSE)
    ELSE Outcome([B EXCEPT ![c.array] = CopyBits(@, (c.index * NumRegisters + i) * register_size,
                                                 register_size, RegisterBits(0, new_value))],
                 c, <<>>, FALSE)

\* trailing_zeros of a positive number
RECURSIVE trailing_zeros(_)
trailing_zeros(n) == IF n % 2 = 1 THEN 0 ELSE 1 + trailing_zeros(n \div 2)

\* the sentinel_mask bounds the trailing zeros by 2^register_size - 2
sentinel_bit == (2 ^ register_size) - 2

\* add(element) storing the value of the hash whatever the register holds
Counter_add_overwrite(B, c, x) ==
    LET j == x % NumRegisters
        rest == x \div NumRegisters
        r == IF rest = 0 THEN sentinel_bit ELSE Min2(trailing_zeros(rest), sentinel_bit)
    IN set_register(B, c, j, r + 1)

\* add(element), x the hash of the element: register j = x & (m - 1) gets the maximum of
\* its value and one plus the trailing zeros of the rest of the hash
Counter_add(B, c, x) ==
    LET j == x % NumRegisters
        rest == x \div NumRegisters
        r == IF rest = 0 THEN sentinel_bit ELSE Min2(trailing_zeros(rest), sentinel_bit)
        current_value == get_register(B, c, j)
        new_value == Max2(current_value, r + 1)
    IN IF current_value # new_value THEN set_register(B, c, j, new_value)
       ELSE Outcome(B, c, <<>>, FALSE)

\* clear(): set_register(i, 0) for every register, from register i on
RECURSIVE ClearFrom(_, _, _)
ClearFrom(B, c, i) ==
    IF i = NumRegisters THEN Outcome(B, c, <<>>, FALSE)
    ELSE LET o == set_register(B, c, i, 0) IN ClearFrom(o.bits, o.counter, i + 1)

clear(B, c) == ClearFrom(B, c, 0)

\* merge(other): register by register, from register i on
RECURSIVE MergeFrom(_, _, _, _)
MergeFrom(B, c, other, i) ==
    IF i = NumRegisters THEN Outcome(B, c, <<>>, FALSE)
    ELSE LET current_value == get_register(B, c, i)
             other_value == get_register(B, other, i)
             o == IF other_value > current_value THEN set_register(B, c, i, other_value)
                  ELSE Outcome(B, c, <<>>, FALSE)
         IN MergeFrom(o.bits, o.counter, other, i + 1)

merge(B, c, other) == MergeFrom(B, c, other, 0)

\* the array whose backend merge_unsafe takes the words of an uncached self from
XArray(c, other) == other.array

\* what merge_unsafe does with the result when self was cached by the call itself
CommitMerged(B, c) == commit_changes(B, c, FALSE)

\* merge_unsafe(other): x is the cache of self, or the words of the backend at the offset
\* of self when they are aligned, or a cache made here and committed at the end; y is the
\* cache of other or the words of its backend.  Two uncached handles on the same aligned
\* counter make x and y the same words: nothing is then written.
Counter_merge_unsafe(B, c, other) ==
    LET cached == Counter_is_cached(c)
        commit == ~cached /\ ~is_aligned(c)
        here == IF commit THEN Counter_cache(B, c) ELSE c
        x == IF cached \/ commit THEN here.cached_bits[1]
             ELSE SliceAt(B[XArray(c, other)], bits_offset(c), words_per_counter)
        y == IF Counter_is_cached(other) THEN other.cached_bits[1]
             ELSE SliceAt(B[other.array], bits_offset(other), words_per_counter)
        new_x == MergeWords(x, y)
        changed == new_x # x
    IN IF cached
       THEN Outcome(B, [c EXCEPT !.cached_bits = <<new_x, IF changed THEN TRUE ELSE @[2]>>],
                    <<changed>>, FALSE)
       ELSE IF commit
       THEN IF changed
            THEN LET o == CommitMerged(B, [here EXCEPT !.cached_bits[1] = new_x])
                 IN Outcome(o.bits, o.counter, IF o.panic THEN <<>> ELSE <<changed>>, o.panic)
            ELSE Outcome(B, c, <<changed>>, FALSE)
       ELSE Outcome([B EXCEPT ![XArray(c, other)] =
                        CopyBits(@, bits_offset(c), words_per_counter * HllWordBits,
                                 SliceBits(new_x))],
                    c, <<changed>>, FALSE)

\* ---- the counters the calls are made on
\* the calls made, but for one more commit_changes or sync_to_backend at the end
HllMaxOps == 3

HllHandles == {"c1", "c2"}

\* the counters handles are taken on: one that starts at a word boundary and one that
\* does not
HllIndexes == {0, 1}

\* the string of bits of a counter whose registers hold the values regs (0 elsewhere)
CounterBits(regs) == UNION {RegisterBits(i, regs[i]) : i \in DOMAIN regs}

\* register contents: registers 6 and 12 straddle two words, register 15 is the last
HllP == (5 :> 15) @@ (6 :> 16) @@ (12 :> 17) @@ (15 :> 1)

HllQ == (0 :> 21) @@ (5 :> 16) @@ (6 :> 15) @@ (12 :> 18) @@ (13 :> 9) @@ (15 :> 31)

HllZ == (0 :> 0)

HllR == (0 :> 31) @@ (1 :> 1) @@ (2 :> 10) @@ (3 :> 7)

\* the contents of the first two counters of the two arrays; the counters after them hold
\* HllR
HllContents == {<<HllP, HllQ>>, <<HllQ, HllP>>} \X {<<HllZ, HllQ>>, <<HllP, HllP>>}

\* the hashes of the elements added: register 6 gets 31 (the hash has no bit for the
\* sentinel to be below), register 12 gets 17
HllHashes == {6, (2 ^ 16) * NumRegisters + 12}

\* the backend of an array whose counters hold the given contents
ArrayBits(contents) ==
    UNION {{i * counter_size_in_bits + p :
               p \in CounterBits(IF i < Len(contents) THEN contents[i + 1] ELSE HllR)} :
           i \in 0 .. (HllNumCounters - 1)}

NoCall == [op |-> "none", self |-> "none", arg |-> None, ret |-> <<>>, panic |-> FALSE, n |-> 0,
           bits |-> <<>>, counter |-> <<>>, prev |-> <<>>]

OtherThanHLL == <<bfvVars, sccVars, essVars, hbVars, dfVars, radVars, stVars, dpVars>>

InitHLL ==
    /\ graph = [n |-> 0, arcs |-> {}]
    /\ \E contents \in HllContents :
           hllBits = ("a" :> ArrayBits(contents[1])) @@ ("b" :> ArrayBits(contents[2]))
    /\ \E i \in HllIndexes, array \in HllArrays, j \in HllIndexes :
           hllCounter = ("c1" :> Counter_get_counter("a", i))
                        @@ ("c2" :> Counter_get_counter(array, j))
    /\ hllCall = NoCall
    /\ hllBuilder = <<>>
    /\ OthersIdleHLL

Other(h) == CHOOSE o \in HllHandles : o # h

\* a call on the counter of handle h is made, with the hash added if any, and leaves
\* outcome o
Call(op, h, arg, o) ==
    /\ ~hllCall.panic
    /\ \/ hllCall.n < HllMaxOps
       \/ hllCall.n = HllMaxOps /\ op \in {"commit_changes", "sync_to_backend"}
    /\ hllBits' = o.bits
    /\ hllCounter' = [hllCounter EXCEPT ![h] = o.counter]
    /\ hllCall' = [op |-> op, self |-> h, arg |-> arg, ret |-> o.ret, panic |-> o.panic,
                   n |-> hllCall.n + 1, bits |-> hllBits, counter |-> hllCounter,
                   prev |-> [hllCall EXCEPT !.prev = <<>>]]
    /\ UNCHANGED <<graph, hllBuilder, OtherThanHLL>>

Cache(h) == Call("cache", h, None,
                 Outcome(hllBits, Counter_cache(hllBits, hllCounter[h]), <<>>, FALSE))

Add(h, x) == Call("add", h, x, Counter_add(hllBits, hllCounter[h], x))

Clear(h) == Call("clear", h, None, clear(hllBits, hllCounter[h]))

Merge(h) == Call("merge", h, None, merge(hllBits, hllCounter[h], hllCounter[Other(h)]))

MergeUnsafe(h) ==
    Call("merge_unsafe", h, None,
         Counter_merge_unsafe(hllBits, hllCounter[h], hllCounter[Other(h)]))

CommitChanges(h) ==
    Call("commit_changes", h, None, commit_changes(hllBits, hllCounter[h], FALSE))

SyncToBackend(h) == Call("sync_to_backend", h, None, sync_to_backend(hllBits, hllCounter[h]))

\* the n bits read at bit offset b of a string of bits
BitsAt(bits, b, n) == {p - b : p \in {q \in bits : q >= b /\ q < b + n}}

\* the test that leaves the changed flag of a cached counter in set_to
SlicesCompared(backend_slice, cache_slice) == backend_slice = cache_slice

\* set_to(counter): the registers of counter, from its cache if it has one, are copied to
\* the cache of self if it has one and to its backend otherwise; byte_offset is that of
\* counter
Counter_set_to(B, c, counter) ==
    LET bits_to_copy == NumRegisters * register_size
        from == IF Counter_is_cached(counter)
                THEN BitsAt(SliceBits(counter.cached_bits[1]), 0, bits_to_copy)
                ELSE BitsAt(B[counter.array], bits_offset(counter), bits_to_copy)
    IN IF Counter_is_cached(c)
       THEN LET bits == CopyBits(SliceBits(c.cached_bits[1]), 0, bits_to_copy, from)
                backend_slice == BitsAt(B[c.array], bits_offset(counter), bits_to_copy)
                cache_slice == BitsAt(bits, 0, bits_to_copy)
            IN Outcome(B, [c EXCEPT !.cached_bits = <<SliceAt(bits, 0, words_per_counter),
                                                      SlicesCompared(backend_slice, cache_slice)>>],
                       <<>>, FALSE)
       ELSE Outcome([B EXCEPT ![c.array] = CopyBits(@, bits_offset(c), bits_to_copy, from)],
                    c, <<>>, FALSE)

\* set_to from a counter that is not the region that self writes: copy_nonoverlapping is
\* given two regions apart
SetTo(h) ==
    /\ \/ Counter_is_cached(hllCounter[h])
       \/ Counter_is_cached(hllCounter[Other(h)])
       \/ hllCounter[h].array # hllCounter[Other(h)].array
       \/ hllCounter[h].index # hllCounter[Other(h)].index
    /\ Call("set_to", h, None, Counter_set_to(hllBits, hllCounter[h], hllCounter[Other(h)]))

NextHLL ==
    \/ \E h \in HllHandles : SetTo(h)
    \/ \E h \in HllHandles : Cache(h)
    \/ \E h \in HllHandles, x \in HllHashes : Add(h, x)
    \/ \E h \in HllHandles : Clear(h)
    \/ \E h \in HllHandles : Merge(h)
    \/ \E h \in HllHandles : MergeUnsafe(h)
    \/ \E h \in HllHandles : CommitChanges(h)
    \/ \E h \in HllHandles : SyncToBackend(h)

(***************************************************************************)
(* HyperLogLogCounterArrayBuilder::build.  The sources hold two of them:   *)
(* the one of utils/hyper_log_log.rs, next to the counters modelled above, *)
(* and the one of utils/hyper_log_log/hyper_log_log_array.rs.  The upper   *)
(* bound on the elements is a power of two, given by its exponent.         *)
(***************************************************************************)
MaxLog2NumRegisters == 8
MaxLen == 3

\* the word types: W::BITS of u8, u16, u32, u64, u128
WordTypes == {8, 16, 32, 64, 128}

\* the exponents e of the upper bounds 2^e on the elements
ElementExponents == {0, 3, 16, 32, 33, 63}

\* the least c with 2^c >= k
RECURSIVE CeilLog2(_)
CeilLog2(k) == IF k <= 1 THEN 0 ELSE 1 + CeilLog2((k + 1) \div 2)

\* ln 2 * exp(k) for k = 0 .. 5, in thousandths: ln(x / ln 2) <= k iff x <= ln 2 * exp(k)
LnTwoExp == <<693, 1884, 5121, 13922, 37844, 102871>>

\* (((n as f64).ln() / 2.0.ln()) / 2.0.ln()).ln().ceil() as usize for n = 2^e: the second
\* division by ln 2 is made before the last logarithm, which is a natural one, so this is
\* ceil(ln(e / ln 2)); the cast takes what is negative or minus infinity to 0
CeilLnOfLog2OverLn2(e) ==
    CHOOSE k \in 0 .. 5 : /\ 1000 * e <= LnTwoExp[k + 1]
                          /\ \A j \in 0 .. (k - 1) : 1000 * e > LnTwoExp[j + 1]

\* the register size as upper_bound_on_elements is meant to give it
register_size_from_number_of_elements_log2(e) == Max2(5, CeilLog2(e))

\* register_size_from_number_of_elements(2^e)
register_size_from_number_of_elements(e) == Max2(5, CeilLnOfLog2OverLn2(e))

\* the least chunk_size with counter_size_in_bits * chunk_size a multiple of W::BITS
ChunkSizeFor(bits, word) == CHOOSE k \in 1 .. word :
                                /\ (bits * k) % word = 0
                                /\ \A j \in 1 .. (k - 1) : (bits * j) % word # 0

\* a HashResult (u64) is the set of the positions of its ones
HashBits == 64

\* 1 << k on a HashResult, where k is less than the width
ShiftLeftOne(k) == {k}

\* x >> k
ShiftRight(x, k) == {b - k : b \in {c \in x : c >= k}}

\* x & (2^k - 1), as a number
RECURSIVE LowBits(_, _)
LowBits(x, k) == IF k = 0 THEN 0 ELSE LowBits(x, k - 1) + (IF (k - 1) \in x THEN 2 ^ (k - 1) ELSE 0)

\* u64::trailing_zeros
trailing_zeros_u64(x) == IF x = {} THEN HashBits ELSE SetMin(x)

\* the rest of the hash alone, with no sentinel over it
Payload_rest(x, a) == ShiftRight(x, a.log_2_num_registers)

\* x >> log_2_num_registers | sentinel_mask
Payload(x, a) == ShiftRight(x, a.log_2_num_registers) \cup a.sentinel_mask

\* what add() derives from the hash x of the element on a counter of the array a: the
\* register and the candidate value
AddOf(a, x) ==
    LET j == LowBits(x, a.log_2_num_registers)
        r == trailing_zeros_u64(Payload(x, a))
    IN [hash |-> x, register |-> j, candidate_value |-> r + 1]

\* the hashes of the elements added to a counter of the array built
Hashes64 == {{}, {63}, {0, 1, 2, 3}, 0 .. 63, {5, 34}, {37}, {38}, {39}, {3, 8, 20}, {7, 40, 63}}

\* build(len) of utils/hyper_log_log.rs: asserts log_2_num_registers >= 4, puts the
\* counters one after the other and adds a word when they do not all start at a word
BuildChunked(b) ==
    IF b.log_2_num_registers < 4 THEN [result |-> "panic"]
    ELSE LET num_registers == 2 ^ b.log_2_num_registers
             size == register_size_from_number_of_elements(b.num_elements)
             bits == num_registers * size
             chunk == ChunkSizeFor(bits, b.word)
         IN [result |-> "Ok", num_counters |-> b.len, num_registers |-> num_registers,
             register_size |-> size, chunk_size |-> chunk,
             log_2_num_registers |-> b.log_2_num_registers,
             sentinel_shift |-> (2 ^ size) - 2,
             sentinel_mask |-> ShiftLeftOne((2 ^ size) - 2),
             required_words |-> Max2(1, (num_registers * b.len * size + b.word - 1) \div b.word)
                                + (IF chunk > 1 THEN 1 ELSE 0)]

\* build(len) of utils/hyper_log_log/hyper_log_log_array.rs: ensures
\* log_2_num_registers >= 4 and counter_size_in_bits % W::BITS = 0
BuildAligned(b) ==
    IF b.log_2_num_registers < 4 THEN [result |-> "Err"]
    ELSE LET num_registers == 2 ^ b.log_2_num_registers
             size == register_size_from_number_of_elements(b.num_elements)
             bits == num_registers * size
         IN IF bits % b.word # 0 THEN [result |-> "Err"]
            ELSE [result |-> "Ok", num_counters |-> b.len, num_registers |-> num_registers,
                  register_size |-> size, chunk_size |-> 1,
                  required_words |-> Max2(1, (num_registers * b.len * size + b.word - 1)
                                             \div b.word)]

OtherThanBuilder ==
    <<bfvVars, sccVars, essVars, hbVars, hllBits, hllCounter, hllCall, dfVars, radVars, stVars, dpVars>>

InitBuilder ==
    /\ graph = [n |-> 0, arcs |-> {}]
    /\ \E p \in 0 .. MaxLog2NumRegisters, e \in ElementExponents, word \in WordTypes,
          len \in 1 .. MaxLen :
           hllBuilder = [pc |-> "builder", log_2_num_registers |-> p, num_elements |-> e,
                         word |-> word, len |-> len, by |-> "none", built |-> <<>>,
                         added |-> <<>>]
    /\ hllBits = <<>>
    /\ hllCounter = <<>>
    /\ hllCall = <<>>
    /\ OthersIdleHLL

\* build(len) consumes the builder
BuilderBuild(by, made) ==
    /\ hllBuilder.pc = "builder"
    /\ hllBuilder' = [hllBuilder EXCEPT !.pc = "consumed", !.by = by, !.built = made]
    /\ UNCHANGED <<graph, OtherThanBuilder>>

BuildOfCounters == BuilderBuild("hyper_log_log.rs", BuildChunked(hllBuilder))

BuildOfArray == BuilderBuild("hyper_log_log_array.rs", BuildAligned(hllBuilder))

\* add(element) on a counter of the array that build(len) of utils/hyper_log_log.rs made
BuilderAdd ==
    /\ hllBuilder.pc = "consumed"
    /\ hllBuilder.by = "hyper_log_log.rs"
    /\ hllBuilder.built.result = "Ok"
    /\ \E x \in Hashes64 :
          hllBuilder' = [hllBuilder EXCEPT !.pc = "added", !.added = AddOf(hllBuilder.built, x)]
    /\ UNCHANGED <<graph, OtherThanBuilder>>

NextBuilder ==
    \/ BuildOfCounters
    \/ BuildOfArray
    \/ BuilderAdd

(***************************************************************************)
(* Specifications                                                          *)
(***************************************************************************)
SpecBFV == InitBFV /\ [][NextBFV]_vars

SpecSCC == InitSCC /\ [][NextSCC]_vars

SpecESS == InitESS /\ [][NextESS]_vars

SpecHB == InitHB /\ [][NextHB]_vars

SpecHLL == InitHLL /\ [][NextHLL]_vars

SpecHBApi == InitHBApi /\ [][NextHBApi]_vars

SpecDFV == InitDFV /\ [][NextDFV]_vars

SpecRadius == InitRadius /\ [][NextRadius]_vars

SpecSeq == InitSeq /\ [][NextSeq]_vars

SpecBuilder == InitBuilder /\ [][NextBuilder]_vars

\* compute() has a step to take: it has neither returned nor panicked, and the main loop
\* is within the rounds that are followed
Running ==
    /\ essPc \notin {"done", "panic"}
    /\ ~(essPc = "loop" /\ missing_nodes > 0 /\ ess.iterations >= MaxIterations)

\* a step of compute(): the steps of NextESS are the steps that advance essSteps
EssStep == Running /\ essSteps' = essSteps + 1

\* compute() is one thread of control that keeps running until it returns
SpecESSFair == InitESSFair /\ [][NextESS]_vars /\ WF_essSteps(EssStep)

(***************************************************************************)
(* Claims on the parallel breadth-first visit                              *)
(***************************************************************************)

\* the shortest-path distances of every graph visited, by graph, source and target
BfvDist == [g \in BfvGraphs |-> [r \in Nodes(g) |-> [v \in Nodes(g) |-> Dist(g, r, v)]]]

\* the first root of rootSeq from which v is reachable, 0 if there is none
FirstRootReaching(v) ==
    LET I == {i \in 1 .. Len(rootSeq) : BfvDist[graph][rootSeq[i]][v] # Unreachable}
    IN IF I = {} THEN 0 ELSE SetMin(I)

\* C4: between two resets the callback is invoked at most once per node under every
\* interleaving of the threads, and when a whole-graph visit with the always-true filter
\* has gone through all its start nodes, whatever the start offset, it has been invoked
\* exactly once for every node.
C4_CallbackOncePerNode ==
    /\ \A v \in Nodes(graph) : cbCount[v] <= 1
    /\ (index = graph.n /\ rejected = {}) => \A v \in Nodes(graph) : cbCount[v] = 1

\* two frontier nodes of one level share a successor: one claimed it, the other is about
\* to examine it
C4_Witness ==
    \E t \in Threads :
        /\ task[t] # <<>>
        /\ LET node == Head(task[t])[1]
               succ == Head(task[t])[2]
           IN /\ cbCount[succ] = 1
              /\ cbDist[succ] = distance
              /\ cbParent[succ] # node
              /\ cbParent[succ] \in curr_frontier \cup {n \in Nodes(graph) : cbDist[n] = distance - 1}

\* C5: with the always-true filter, every callback carries the shortest-path distance from
\* the first root (since the last reset) that reaches the node, and once the visits have
\* returned exactly the nodes reachable from one of the roots have been reported, each once.
C5_ShortestDistances ==
    rejected = {} =>
        \A v \in Nodes(graph) :
            LET i == FirstRootReaching(v)
            IN /\ cbCount[v] >= 1 => (i # 0 /\ cbDist[v] = BfvDist[graph][rootSeq[i]][v])
               /\ (bfvPc = "idle" /\ i # 0) => cbCount[v] = 1
               /\ (bfvPc = "idle" /\ i = 0) => cbCount[v] = 0

\* two visits in sequence without a reset: the second root reports a node at distance 2
\* and reaches a node that the first root had already reported
C5_Witness ==
    /\ bfvPc = "idle"
    /\ rejected = {}
    /\ Len(rootSeq) = 2
    /\ \E v \in Nodes(graph) : FirstRootReaching(v) = 2 /\ cbDist[v] = 2
    /\ \E v \in Nodes(graph) : FirstRootReaching(v) = 1 /\ v \in Reachable(graph, rootSeq[2])

\* C23: a candidate that the filter rejects is not marked visited, gets no callback and is
\* not enqueued: a node is visited exactly when its one callback was made, with a parent
\* that the filter accepted, and the next frontier holds nodes reported at this level only;
\* so once the visits have returned every arc from a visited node that the filter accepts
\* has its target visited, through whichever arc came first, and a root that the filter
\* rejects has no callback and stays unvisited unless an accepted arc reaches it
C23_RejectedCandidateIsSkipped ==
    /\ \A v \in Nodes(graph) :
          /\ cbCount[v] \in {0, 1}
          /\ visited[v] <=> cbCount[v] = 1
          /\ cbCount[v] = 1 =>
                /\ filter(v, cbParent[v])
                /\ cbParent[v] = v \/ <<cbParent[v], v>> \in graph.arcs
    /\ \A v \in next_frontier : visited[v] /\ cbDist[v] = distance
    /\ bfvPc = "idle" =>
          \A a \in graph.arcs : (visited[a[1]] /\ filter(a[2], a[1])) => visited[a[2]]

\* the filter rejects 3 as a successor of 1; 1 was reported at distance 1 and its arc to 3
\* was examined at distance 2; 3 was reported later, at distance 3, as a successor of 2
C23_Witness ==
    /\ bfvPc = "idle"
    /\ rejected = {<<3, 1>>}
    /\ <<1, 3>> \in graph.arcs
    /\ cbCount[1] = 1 /\ cbDist[1] = 1
    /\ cbCount[3] = 1 /\ cbDist[3] = 3 /\ cbParent[3] = 2

\* the nodes that are being expanded: those of the frontier that were not handed out and
\* those whose arcs a thread is going through
Expanding ==
    curr_frontier \cup UNION {{task[t][k][1] : k \in 1 .. Len(task[t])} : t \in Threads}

\* a step that invokes the callback for v
CallbackFor(v) == cbCount'[v] = cbCount[v] + 1

\* C24: level boundaries are total.  While a visit runs, the nodes being expanded were all
\* reported at the level before the current one and the nodes pushed for the next level at the
\* current one; a callback is passed the current distance (0 for the root, before the first
\* level); and the distance moves, by one, only when no node is left to expand and no thread
\* is going through a chunk: every callback of distance d is over before any of distance d + 1
C24_LevelBoundariesAreTotal ==
    /\ [](bfvPc = "level" =>
            /\ \A v \in Expanding : cbCount[v] = 1 /\ cbDist[v] = distance - 1
            /\ \A v \in next_frontier : cbCount[v] = 1 /\ cbDist[v] = distance)
    /\ [][/\ \A v \in Nodes(graph) :
               CallbackFor(v) =>
                  \/ bfvPc = "level" /\ cbDist'[v] = distance /\ distance' = distance
                  \/ bfvPc = "idle" /\ cbDist'[v] = 0 /\ distance' = 1 /\ Expanding' = {v}
          /\ (bfvPc = "level" /\ distance' # distance) =>
                /\ Expanding = {}
                /\ distance' = distance + 1
                /\ Expanding' = next_frontier
                /\ cbCount' = cbCount]_vars

\* the two threads go through chunks of the second level at once and each still has an arc
\* to a node that nobody reported: the callback of the level can come from either
C24_Witness ==
    /\ bfvPc = "level"
    /\ distance = 2
    /\ \E v, w \in Nodes(graph) :
          /\ ~visited[v] /\ ~visited[w]
          /\ \E k \in 1 .. Len(task["t1"]) :
                task["t1"][k][2] = v /\ filter(v, task["t1"][k][1])
          /\ \E k \in 1 .. Len(task["t2"]) :
                task["t2"][k][2] = w /\ filter(w, task["t2"][k][1])

(***************************************************************************)
(* Claims on ExactSumSweep                                                 *)
(***************************************************************************)
\* the eccentricities: the greatest finite distance from a node, in the graph and in the
\* transpose
EssEcc == [g \in EssGraphs |-> [v \in Nodes(g) |->
            [fwd |-> SetMax({Dist(g, v, w) : w \in Reachable(g, v)}),
             bwd |-> SetMax({Dist(Transpose(g), v, w) : w \in Reachable(Transpose(g), v)})]]]

ecc_fwd(v) == EssEcc[graph][v].fwd
ecc_bwd(v) == EssEcc[graph][v].bwd

\* C2: after construction and after every step of ExactSumSweep (a forward visit, a backward
\* visit, all_cc_upper_bound), every node has forward_low <= ecc_fwd <= forward_high and
\* backward_low <= ecc_bwd <= backward_high.
C2_BoundsEncloseEccentricities ==
    \A v \in Nodes(graph) :
        /\ ess.forward_low[v] <= ecc_fwd(v)
        /\ ecc_fwd(v) <= ess.forward_high[v]
        /\ ess.backward_low[v] <= ecc_bwd(v)
        /\ ecc_bwd(v) <= ess.backward_high[v]

\* all_cc_upper_bound has just lowered an upper bound onto the eccentricity of a node
\* whose lower bound is still below it, and left a lowered bound that is not yet tight
C2_Witness ==
    /\ last.move = 0
    /\ \E v \in Nodes(graph) :
          \/ ess.forward_low[v] < ecc_fwd(v) /\ ess.forward_high[v] = ecc_fwd(v)
          \/ ess.backward_low[v] < ecc_bwd(v) /\ ess.backward_high[v] = ecc_bwd(v)
    /\ \E v \in Nodes(graph) :
          \/ ecc_fwd(v) < ess.forward_high[v] /\ ess.forward_high[v] < graph.n
          \/ ecc_bwd(v) < ess.backward_high[v] /\ ess.backward_high[v] < graph.n

\* the parts of the result of compute(): the radius and its vertex, the diameter and its
\* vertex (whose eccentricity is its forward or its backward one), the eccentricities; a
\* graph of no node has no vertex to name
RadiusIsExact ==
    graph.n # 0 =>
        /\ ess.radius_vertex \in Radial(ess)
        /\ ess.radius_high = ecc_fwd(ess.radius_vertex)
        /\ \A v \in Radial(ess) : ess.radius_high <= ecc_fwd(v)

DiameterIsExact ==
    /\ \A v \in Nodes(graph) : ecc_fwd(v) <= ess.diameter_low
    /\ graph.n # 0 =>
          \/ ecc_fwd(ess.diameter_vertex) = ess.diameter_low
          \/ ecc_bwd(ess.diameter_vertex) = ess.diameter_low

ForwardIsExact ==
    \A v \in Nodes(graph) : ess.forward_low[v] = ecc_fwd(v) /\ ess.forward_high[v] = ecc_fwd(v)

BackwardIsExact ==
    \A v \in Nodes(graph) : ess.backward_low[v] = ecc_bwd(v) /\ ess.backward_high[v] = ecc_bwd(v)

C9_ComputeReturns == <>(essPc = "done")

\* compute() has returned after moves that found no start vertex and moves that started
\* from a vertex that was complete already
C9_Witness ==
    /\ essPc = "done"
    /\ last.noStart # {}
    /\ last.fromComplete # {}

(***************************************************************************)
(* Claims on the graph of the strongly connected components                *)
(***************************************************************************)
\* the arcs of the graph from component c to another component
ArcsLeaving(c) == {a \in graph.arcs : scc.comp[a[1]] = c /\ scc.comp[a[2]] # c}

\* C10: in the built SccGraph every connection (target, start, end) of children(c) has
\* component(start) = c, component(end) = target, target # c and (start, end) an arc of the
\* graph; children(c) holds at most one connection per target; and children(c) is exactly
\* the connections of the graph whose start lies in c, those being one per component that
\* an arc leaving c enters.
C10_ConnectionsAreBridges ==
    sccPc = "built" =>
        \A c \in SccComponents(scc) :
            LET ch == children(segments_offset, data, c)
            IN /\ \A i \in 1 .. Len(ch) :
                    /\ scc.comp[ch[i].start] = c
                    /\ scc.comp[ch[i].end] = ch[i].target
                    /\ ch[i].target # c
                    /\ <<ch[i].start, ch[i].end>> \in graph.arcs
               /\ \A i, j \in 1 .. Len(ch) : ch[i].target = ch[j].target => i = j
               /\ {ch[i] : i \in 1 .. Len(ch)}
                    = {data[i] : i \in {j \in 1 .. Len(data) : scc.comp[data[j].start] = c}}
               /\ {ch[i].target : i \in 1 .. Len(ch)} = {scc.comp[a[2]] : a \in ArcsLeaving(c)}
               /\ (childrenOut # <<>> /\ childrenOut[1] = c) => childrenOut[2] = ch

\* children() answered for a component with two children, one of them entered by two arcs
C10_Witness ==
    /\ sccPc = "built"
    /\ childrenOut # <<>>
    /\ Len(childrenOut[2]) = 2
    /\ \E i \in 1 .. 2 :
          Cardinality({a \in ArcsLeaving(childrenOut[1]) : scc.comp[a[2]] = childrenOut[2][i].target}) = 2

\* the arcs of the graph from component c to component d
ArcsBetween(c, d) == {a \in graph.arcs : scc.comp[a[1]] = c /\ scc.comp[a[2]] = d}

\* arc a is met before arc b by a scan of the vertices, and of their successors, in order
ScannedBefore(a, b) == a[1] < b[1] \/ (a[1] = b[1] /\ a[2] < b[2])

\* the arc from c to d that the scan has to keep: the first met among those of largest value
BestArcBetween(c, d) ==
    CHOOSE a \in ArcsBetween(c, d) :
        \A b \in ArcsBetween(c, d) :
            \/ arc_value(graph, a[1], a[2]) > arc_value(graph, b[1], b[2])
            \/ arc_value(graph, a[1], a[2]) = arc_value(graph, b[1], b[2])
               /\ (a = b \/ ScannedBefore(a, b))

\* C11: for every pair of distinct components joined by an arc the built SccGraph stores a
\* connection whose arc has the largest outdegree(start in the transpose) + outdegree(end in
\* the graph) among the arcs from the one to the other, the first met by the scan among
\* those; the scan of a component begins with no best arc and no child left by another
C11_ConnectionsAreBestArcs ==
    /\ sccPc = "built" =>
          \A c, d \in SccComponents(scc) :
              (c # d /\ ArcsBetween(c, d) # {}) =>
                  LET ch == children(segments_offset, data, c)
                  IN \E i \in 1 .. Len(ch) :
                        /\ ch[i].target = d
                        /\ <<ch[i].start, ch[i].end>> = BestArcBetween(c, d)
    /\ (sccPc = "scan" /\ sccPending = VerticesInScc(scc, sccC)) =>
          /\ best.child_components = <<>>
          /\ \A k \in SccComponents(scc) : best.best_start[k] = None

\* two components have a connection to the same third one, and the arc of one of them is
\* neither the first nor the only arc met between the two components
C11_Witness ==
    /\ sccPc = "built"
    /\ \E c, d, e \in SccComponents(scc) :
          /\ c # d /\ c # e /\ d # e
          /\ ArcsBetween(c, e) # {} /\ ArcsBetween(d, e) # {}
          /\ \E a \in ArcsBetween(c, e) : ScannedBefore(a, BestArcBetween(c, e))

(***************************************************************************)
(* Claims about HyperBall                                                  *)
(***************************************************************************)
\* the register-wise maximum of the counters of the nodes of S
RegisterMax(bank, S) == [j \in HbRegisters |-> SetMax({bank[v][j] : v \in S})]

\* an iteration that merges every successor of every node
PlainStep(bank) == [u \in Nodes(graph) |-> RegisterMax(bank, {u} \cup SuccSet(graph, u))]

\* the counters of a plain run after t iterations
RECURSIVE PlainRun(_)
PlainRun(t) == IF t = 0 THEN init(hb, <<>>).bits ELSE PlainStep(PlainRun(t - 1))

\* iterate() has completed at least once and the parallel phase is not running
BetweenIterations == hbRun.pc \in {"loop", "returned"} /\ hb.iteration > 0

\* C1: after the swap that ends an iteration, in whichever mode it ran, every register of the
\* current counter of a node is the maximum of that register, before the iteration, over the
\* node and its successors; the counters are those of a plain run of as many iterations
C1_IterationMergesSuccessors ==
    BetweenIterations =>
        /\ hb.bits = PlainStep(hbObs.pre)
        /\ hb.bits = PlainRun(hb.iteration)

\* a run that has gone through a standard, a systolic pre-local and a local iteration, the
\* last of which changed a counter
C1_Witness ==
    /\ BetweenIterations
    /\ <<FALSE, FALSE, FALSE>> \in SeqRange(hbObs.modes)
    /\ <<TRUE, FALSE, TRUE>> \in SeqRange(hbObs.modes)
    /\ hb.systolic /\ hb.local
    /\ hb.bits # hbObs.pre

\* C6: while the parallel phase runs no register of the current bank is written, the result
\* counter and the modified_result bit of a node are written by at most one worker, and no
\* worker is running outside the parallel phase, where the banks are swapped
C6_ParallelPhaseWrites ==
    /\ hbRun.pc = "parallel" => hb.bits = hbObs.pre
    /\ \A v \in Nodes(graph) : /\ Cardinality(hbObs.result_writers[v]) <= 1
                               /\ Cardinality(hbObs.flag_writers[v]) <= 1
    /\ hbRun.pc # "parallel" => \A t \in Threads : hbWorker[t].pc = "idle"

\* both workers are scanning, each has written result counters, a merge has changed a counter
C6_Witness ==
    /\ hbRun.pc = "parallel"
    /\ \A t \in Threads : /\ hbWorker[t].pc = "work"
                          /\ \E v \in Nodes(graph) : hbObs.result_writers[v] = {t}
    /\ \E v \in Nodes(graph) : hbObs.flag_writers[v] # {}

\* C7: after init() the history of the neighbourhood function is non-decreasing and holds
\* iteration + 1 values; the value appended by an iteration is the computed one, or the
\* last recorded one where the computed one is below it
C7_HistoryIsMonotone ==
    hbRun.pc # "built" =>
        LET nf == hb.neighbourhood_function
        IN /\ Len(nf) = hb.iteration + 1
           /\ \A k \in 1 .. Len(nf) - 1 : nf[k + 1] >= nf[k]
           /\ hb.iteration > 0 =>
                nf[Len(nf)] = IF hb.last < nf[Len(nf) - 1] THEN nf[Len(nf) - 1] ELSE hb.last

\* an iteration computed a value below the last recorded one
C7_Witness ==
    /\ BetweenIterations
    /\ hb.last < hb.neighbourhood_function[hb.iteration]

\* the counters that the last iteration changed
LastModified == Cardinality({u \in Nodes(graph) : hb.bits[u] # hbObs.pre[u]})

\* the most iterations the run may perform
IterationBound == Min2(hbRun.given[1], graph.n)

\* the last iteration is one at which run() has to stop
RunIsDue ==
    LET nf == hb.neighbourhood_function
        tau == hbRun.given[2]
    IN \/ LastModified = 0
       \/ /\ tau # <<>>
          /\ hb.iteration - 1 > 3
          /\ nf[Len(nf)] * tau[2] < (tau[2] + tau[1]) * nf[Len(nf) - 1]
       \/ hb.iteration >= IterationBound

\* C8: run() performs at most min(upper_bound, N) iterations; it returns after the first
\* iteration that changed no counter, or whose index is above 3 and whose relative increment
\* is below 1 + tau when a threshold tau is given, or that reaches the bound, and goes on
\* to the next iteration otherwise
C8_RunStopsWhenDue ==
    /\ hbRun.pc # "built" => hb.iteration <= IterationBound
    /\ hbRun.pc = "parallel" => hb.iteration < IterationBound
    /\ hbRun.pc = "returned" => IF hb.iteration = 0 THEN IterationBound = 0 ELSE RunIsDue
    /\ hbRun.pc = "loop" => IF hb.iteration = 0 THEN IterationBound > 0 ELSE ~RunIsDue

\* run() has returned on the relative increment of its fifth iteration, which changed a counter
C8_Witness ==
    /\ hbRun.pc = "returned"
    /\ hb.iteration = 5
    /\ hb.iteration < IterationBound
    /\ LastModified # 0

\* the iterations begun so far
Iterations == 1 .. Len(hbObs.modes)

RECURSIVE SumOver(_, _)
SumOver(S, f) == IF S = {} THEN 0 ELSE LET u == CHOOSE v \in S : TRUE
                                       IN f[u] + SumOver(S \ {u}, f)

\* the counters that the running iteration has modified
ModifiedNow == {u \in Nodes(graph) : hbObs.flag_writers[u] # {}}

\* C20: an iteration that runs in local mode is systolic, so its accumulator starts from
\* the previous value and gets the deltas of the modified counters only.
C20_LocalIsSystolic ==
    (hbRun.pc = "parallel" /\ hb.local) =>
        /\ hb.systolic
        /\ (\A t \in Threads : hbWorker[t].pc = "get" /\ hbWorker[t].i = 0 /\ hbCtx.cursor = 0)
               => hb.current = hb.last
        /\ (\A t \in Threads : hbWorker[t].pc = "done")
               => hb.current = hb.last
                      + SumOver(ModifiedNow,
                                [u \in Nodes(graph) |-> estimate_count(hb.result_bits[u])
                                                        - estimate_count(hbObs.pre[u])])

\* whether the quantity that the accessor of a call returns was asked of the builder
Configured(call) ==
    CASE call.op \in {"neighbourhood_function", "reachable_nodes"} -> TRUE
      [] call.op \in {"sum_of_distances", "closeness_cetrality", "lin_centrality",
                      "nieminen_centrality"} -> hbIn.sum_of_distances
      [] call.op = "harmonic_centralities" -> hbIn.sum_of_inverse_distances
      [] call.op = "discounted_centrality" -> call.index < Len(hbIn.discount_functions)

\* C21: an accessor called before run() returns an error; called after a run() that returned
\* Ok, on whichever graph and with whichever upper_bound (the empty graph and upper_bound = 0
\* included), it returns Ok for a configured quantity and an error exactly for a centrality
\* that was not configured or a discount index out of range
C21_AccessorsFollowRun ==
    hbObs.call # <<>> =>
        LET call == hbObs.call[1]
        IN /\ hbRun.pc = "built" => ~call.ret.ok
           /\ hbRun.pc = "returned" => (call.ret.ok <=> Configured(call))

\* the same for the runs that performed an iteration
AccessorsFollowIterations ==
    hbObs.call # <<>> /\ ~(hbRun.pc = "returned" /\ hb.iteration = 0) =>
        LET call == hbObs.call[1]
        IN /\ hbRun.pc = "built" => ~call.ret.ok
           /\ hbRun.pc = "returned" => (call.ret.ok <=> Configured(call))

\* the total node weight
TotalWeight == IF hbIn.weights # <<>> THEN SumOver(Nodes(graph), hbIn.weights[1]) ELSE graph.n

\* the per-run state of a HyperBall
PerRun(h) == <<h.iteration, h.systolic, h.local, h.pre_local, h.sum_of_distances,
               h.sum_of_inverse_distances, h.discounted_centralities, h.bits, h.result_bits,
               h.neighbourhood_function, h.modified_counter>>

\* the state h left by init(): the history holds N(0), every modified_current bit is true and
\* the per-run state is that of the first run
Initialised(h) ==
    /\ h.neighbourhood_function = <<TotalWeight * 10000>>
    /\ h.modified_counter = TrueBits
    /\ h.iteration = 0 /\ ~h.systolic /\ ~h.local /\ ~h.pre_local
    /\ h.sum_of_distances \in {<<>>, Some(ZeroSlice)}
    /\ h.sum_of_inverse_distances \in {<<>>, Some(ZeroSlice)}
    /\ \A k \in DOMAIN h.discounted_centralities : h.discounted_centralities[k] = ZeroSlice
    /\ h.result_bits = ZeroBank
    /\ PerRun(h) = PerRun(hbObs.inits[1])

\* C22: after the initialisation at the start of run() the history of the neighbourhood
\* function holds exactly N(0), the total node weight (the sum of the weights when weights
\* are supplied, N otherwise), every modified_current bit is true and the per-run state
\* (iteration, mode flags, centrality accumulators, both banks) is reset, so that a second
\* run starts from the state that the first one started from
C22_InitResetsTheRun ==
    \A k \in 1 .. Len(hbObs.inits) : Initialised(hbObs.inits[k])

\* the same for the instances built without weights
InitResetsTheRunWithoutWeights ==
    hbIn.weights = <<>> => \A k \in 1 .. Len(hbObs.inits) : Initialised(hbObs.inits[k])

(***************************************************************************)
(* Claims on the HyperLogLog counters                                      *)
(***************************************************************************)
\* the registers of a counter as its handle reads them
CounterRegisters(B, c) == [i \in 0 .. (NumRegisters - 1) |-> get_register(B, c, i)]

RegisterwiseMax(x, y) == [i \in 0 .. (NumRegisters - 1) |-> Max2(x[i], y[i])]

\* the bits of the last word of a counter beyond its last register: of its cache if it has
\* one, of its own array otherwise
ResidualBits(B, c) ==
    IF Counter_is_cached(c) THEN {p \in SliceBits(c.cached_bits[1]) : p >= counter_size_in_bits}
    ELSE {p - bits_offset(c) : p \in {q \in B[c.array] :
                                         /\ q >= bits_offset(c) + counter_size_in_bits
                                         /\ q < bits_offset(c) + words_per_counter * HllWordBits}}

Merges == {"merge", "merge_unsafe"}

\* the registers of the handle h before the last call and before the call before it
RegistersBefore(call, h) == CounterRegisters(call.bits, call.counter[h])

\* C12: merge_unsafe leaves self with the register-wise maximum of the two counters, the
\* result of the register-by-register merge, whatever the registers hold and wherever
\* they lie in the words, and keeps the bits of the last word beyond the last register;
\* a merge of a into b after a merge of b into a leaves both with that maximum.
C12_MergeUnsafeIsRegisterwiseMax ==
    /\ hllCall.op = "merge_unsafe" =>
           LET h == hllCall.self
               c0 == hllCall.counter[h]
               other0 == hllCall.counter[Other(h)]
               safe == merge(hllCall.bits, c0, other0)
               now == CounterRegisters(hllBits, hllCounter[h])
           IN /\ ~hllCall.panic
              /\ now = RegisterwiseMax(RegistersBefore(hllCall, h), RegistersBefore(hllCall, Other(h)))
              /\ now = CounterRegisters(safe.bits, safe.counter)
              /\ ResidualBits(hllBits, hllCounter[h]) = ResidualBits(hllCall.bits, c0)
    /\ (/\ hllCall.op \in Merges
        /\ hllCall.prev # <<>>
        /\ hllCall.prev.op \in Merges
        /\ hllCall.prev.self # hllCall.self) =>
           LET h == hllCall.self
               both == RegisterwiseMax(RegistersBefore(hllCall.prev, h),
                                       RegistersBefore(hllCall.prev, Other(h)))
           IN /\ ~hllCall.panic
              /\ CounterRegisters(hllBits, hllCounter[h]) = both
              /\ CounterRegisters(hllBits, hllCounter[Other(h)]) = both

\* the same on the calls whose self is cached, or lies at a word boundary of the array
\* that other lies in too
MergeUnsafeInPlace ==
    LET h == hllCall.self
        c0 == hllCall.counter[h]
        other0 == hllCall.counter[Other(h)]
    IN /\ hllCall.op = "merge_unsafe"
       /\ \/ Counter_is_cached(c0)
          \/ is_aligned(c0) /\ c0.array = other0.array

MergeUnsafeInPlaceIsRight ==
    (MergeUnsafeInPlace /\ (hllCall.prev # <<>> => hllCall.prev.op \notin Merges)) =>
        C12_MergeUnsafeIsRegisterwiseMax

\* the registers of the self of the last call before it, and of its other
SelfBefore == RegistersBefore(hllCall, hllCall.self)

OtherBefore == RegistersBefore(hllCall, Other(hllCall.self))

SelfNow == CounterRegisters(hllBits, hllCounter[hllCall.self])

\* the counter of the last call is bit for bit what it was: its backend, and its cache
SelfBitwiseUnchanged ==
    LET c0 == hllCall.counter[hllCall.self]
        c1 == hllCounter[hllCall.self]
    IN /\ c1.cached_bits = c0.cached_bits
       /\ SliceAt(hllBits[c1.array], bits_offset(c1), words_per_counter)
              = SliceAt(hllCall.bits[c0.array], bits_offset(c0), words_per_counter)

\* C13: merge_unsafe returns true exactly when a register of self grew; merging a counter
\* into itself, or one whose registers are all at most those of self, returns false and
\* leaves self bit for bit unchanged; the changed flag of a cached counter, once true,
\* stays true through a merge that changes nothing.
C13_MergeUnsafeReportsChange ==
    hllCall.op = "merge_unsafe" =>
        LET c0 == hllCall.counter[hllCall.self]
            grew == \E i \in 0 .. (NumRegisters - 1) : SelfNow[i] > SelfBefore[i]
        IN /\ ~hllCall.panic
           /\ hllCall.ret = <<grew>>
           /\ \A i \in 0 .. (NumRegisters - 1) : SelfNow[i] >= SelfBefore[i]
           /\ (\A i \in 0 .. (NumRegisters - 1) : OtherBefore[i] <= SelfBefore[i]) =>
                  hllCall.ret = <<FALSE>> /\ SelfBitwiseUnchanged
           /\ Counter_is_changed(c0) => Counter_is_changed(hllCounter[hllCall.self])

\* the register h mod m and the value v of the hashes added
HashRegister == (6 :> <<6, 31>>) @@ (1048588 :> <<12, 17>>)

\* the strings of bits s and t differ at most from position lo up to hi - 1
SameOutside(s, t, lo, hi) == {p \in s : p < lo \/ p >= hi} = {p \in t : p < lo \/ p >= hi}

C17_MergeUnsafeLeavesOther ==
    hllCall.op = "merge_unsafe" =>
        LET h == hllCall.self
            c0 == hllCall.counter[h]
            lo == bits_offset(c0)
            hi == bits_offset(c0) + NumRegisters * register_size
        IN /\ hllCounter[Other(h)] = hllCall.counter[Other(h)]
           /\ CounterRegisters(hllBits, hllCounter[Other(h)]) = OtherBefore
           /\ \A array \in HllArrays :
                  IF array = c0.array
                  THEN SameOutside(hllBits[array], hllCall.bits[array], lo, hi)
                  ELSE hllBits[array] = hllCall.bits[array]

\* the counters of the array that build() made start at a word boundary
CountersAligned(made, word) ==
    \A i \in 0 .. (made.num_counters - 1) : (i * made.num_registers * made.register_size) % word = 0

\* the builder settings that the claim wants rejected
Unsupported(b) ==
    \/ b.log_2_num_registers < 4
    \/ ((2 ^ b.log_2_num_registers) * register_size_from_number_of_elements(b.num_elements))
           % b.word # 0

\* C18: build returns an error, and makes no array, when log_2_num_registers < 4 or when
\* the m * r bits of a counter are not a multiple of the word width; for every other
\* setting it succeeds and every counter starts at a word boundary.
C18_BuildRejectsUnaligned ==
    hllBuilder.pc = "consumed" =>
        IF Unsupported(hllBuilder) THEN hllBuilder.built = [result |-> "Err"]
        ELSE /\ hllBuilder.built.result = "Ok"
             /\ hllBuilder.built.num_counters = hllBuilder.len
             /\ CountersAligned(hllBuilder.built, hllBuilder.word)

\* the same of the build of utils/hyper_log_log/hyper_log_log_array.rs alone
BuildOfArrayRejectsUnaligned ==
    hllBuilder.by = "hyper_log_log_array.rs" => C18_BuildRejectsUnaligned

(***************************************************************************)
(* Claims on the algorithms on the depth-first visit                       *)
(***************************************************************************)
\* the graph has a directed cycle: an arc whose source is reachable from its target
HasCycle(g) == \E a \in g.arcs : a[1] \in Reachable(g, a[2])

\* C25: acyclicity::run returns true iff the graph has no directed cycle, a self-loop being
\* one: the visit with three states reports Revisit with back_edge = true exactly for an arc
\* whose target is on the stack of the visit, the visit stops at the first such event, which
\* is the last callback made, and an arc to a completed node does not make the result false
C25_AcyclicIffNoCycle ==
    dfAlgo.name = "acyclicity" =>
        /\ \A k \in 1 .. Len(dfAlgo.event) :
              LET event == dfAlgo.event[k]
              IN /\ event.kind = "Revisit" => (event.back_edge <=> event.curr \in OnStack)
                 /\ dfAlgo.stopped <=> (event.kind = "Revisit" /\ event.back_edge)
        /\ dfAlgo.event = <<>> => ~dfAlgo.stopped
        /\ dfAlgo.pc = "returned" => dfAlgo.acyclic = <<~HasCycle(graph)>>

\* the test has returned true on the diamond, where the second arc into 3 finds it completed
C25_Witness ==
    /\ dfAlgo.name = "acyclicity"
    /\ dfAlgo.pc = "returned"
    /\ graph = DfvDiamond
    /\ dfAlgo.acyclic = <<TRUE>>
    /\ dfAlgo.calls = 10

\* the position of node u in the order
PositionIn(order, u) == CHOOSE k \in DOMAIN order : order[k] = u

\* C26: top_sort::run returns a permutation of [0, N) for every graph: every Completed event
\* writes one more slot, from the last one down, each with another node, and the slots
\* above pos are the ones that are written; when the graph is acyclic, u is before v in the
\* result for every arc (u, v)
C26_TopSortIsPermutation ==
    dfAlgo.name = "top_sort" =>
        LET order == dfAlgo.topol_sort
            written == {k \in Nodes(graph) : k >= dfAlgo.pos}
        IN /\ dfAlgo.pos \in 0 .. graph.n
           /\ \A k \in Nodes(graph) : order[k] # Uninit <=> k \in written
           /\ \A k \in written : order[k] \in Nodes(graph)
           /\ \A j, k \in written : order[j] = order[k] => j = k
           /\ {order[k] : k \in written} =
                 {v \in Nodes(graph) : dfv.state[v] # "unvisited"} \ OnStack
           /\ dfAlgo.pc = "returned" =>
                 /\ dfAlgo.pos = 0
                 /\ {order[k] : k \in Nodes(graph)} = Nodes(graph)
                 /\ ~HasCycle(graph) =>
                       \A a \in graph.arcs : PositionIn(order, a[1]) < PositionIn(order, a[2])

\* the sort of the diamond has returned: 0, then 2 and 1 in the order that the visit left
\* them, then 3
C26_Witness ==
    /\ dfAlgo.name = "top_sort"
    /\ dfAlgo.pc = "returned"
    /\ graph = DfvDiamond
    /\ dfAlgo.topol_sort = (0 :> 0) @@ (1 :> 2) @@ (2 :> 1) @@ (3 :> 3)

MutuallyReachable(g, u, v) == u \in Reachable(g, v) /\ v \in Reachable(g, u)

\* C27: Kosaraju::compute_with_t gives two nodes the same component iff each is reachable
\* from the other; the ids are exactly 0 .. K - 1 with K = num_components; the partition is
\* the one of Tarjan; and while the transpose is visited the counter has advanced once for
\* every tree begun, the roots that were already visited beginning none
C27_KosarajuComponents ==
    dfAlgo.name = "kosaraju" =>
        /\ dfAlgo.phase = "components" =>
              usize_wrapping_add(dfAlgo.number_of_components, 1) =
                  Cardinality({dfAlgo.component[v] :
                                  v \in {w \in Nodes(graph) : dfv.state[w] # "unvisited"}})
        /\ dfAlgo.pc = "returned" =>
              LET component == dfAlgo.component
                  K == dfAlgo.n_of_components[1]
                  tarjan == TarjanStronglyConnectedComponents(graph)
              IN /\ \A u, v \in Nodes(graph) :
                        component[u] = component[v] <=> MutuallyReachable(graph, u, v)
                 /\ {component[v] : v \in Nodes(graph)} = 0 .. K - 1
                 /\ K = tarjan.num
                 /\ \A u, v \in Nodes(graph) :
                        component[u] = component[v] <=> tarjan.comp[u] = tarjan.comp[v]

\* three components on five nodes: two of the roots taken from the topological sort were
\* already visited
C27_Witness ==
    /\ dfAlgo.name = "kosaraju"
    /\ dfAlgo.pc = "returned"
    /\ graph = DfvLate
    /\ dfAlgo.n_of_components = <<3>>
    /\ dfAlgo.component[2] = dfAlgo.component[3]

\* the SCC algorithms on the graph of no node: no failure, and 0 components reported from a
\* counter that started at 0 - 1
SccOfNoNodeCountsZero ==
    (DOMAIN dfAlgo # {} /\ graph.n = 0) =>
        (dfAlgo.name \in {"kosaraju", "symm_seq"} =>
            /\ dfAlgo.pc # "panic"
            /\ dfAlgo.phase # "top_sort" => dfAlgo.number_of_components = usize_MAX
            /\ dfAlgo.pc = "returned" => dfAlgo.n_of_components = <<0>>)

\* compute() on the graph of no node returns at once and leaves the computer as it was
ComputeOfNoNodeReturnsAtOnce ==
    (essPc = "new" /\ graph.n = 0) =>
        /\ essPc' = "done"
        /\ UNCHANGED <<ess, visits, heurI, points, missing_nodes, last>>

\* C28: on the graph of no node (N = 0) the SCC algorithms report 0 components without
\* failing: the counter of the components starts at 0 - 1 in wrapping arithmetic and the
\* final counter + 1 evaluates to 0, with no overflow failure; and
\* DirExactSumSweepComputer::compute returns at once, leaving all the state unchanged
C28_EmptyGraphReportsNothing ==
    /\ [](SccOfNoNodeCountsZero)
    /\ [][ComputeOfNoNodeReturnsAtOnce]_vars

\* where the build makes number_of_components + 1 wrap, the SCC algorithms return 0
\* components on the graph of no node
SccOfNoNodeWrapsToZero ==
    (DOMAIN dfAlgo # {} /\ graph.n = 0 /\ dfAlgo.pc = "returned") =>
        (dfAlgo.name \in {"kosaraju", "symm_seq"} =>
            dfAlgo.n_of_components = <<0>> /\ dfAlgo.number_of_components = usize_MAX)

\* compute() always returns at once on the graph of no node
EmptyComputeReturnsAtOnce == [][ComputeOfNoNodeReturnsAtOnce]_vars

\* compute() has returned on the graph of no node
EmptyComputeReturned == graph.n = 0 /\ essPc = "done" /\ ess.iterations = 0

\* the nodes of component k
MembersOf(c, k) == {v \in DOMAIN c.comp : c.comp[v] = k}

\* the score of node v that the pivot is to minimise, and the sum that breaks the ties
PivotScore(e, v) ==
    e.backward_low[v] + e.forward_low[v]
        + (IF e.forward_low[v] # e.forward_high[v] THEN 0 ELSE graph.n)
        + (IF e.backward_low[v] # e.backward_high[v] THEN 0 ELSE graph.n)

PivotTot(e, v) == e.forward_tot[v] + e.backward_tot[v]

\* C29: find_best_pivot returns for every component c a node pivot[c] of c that minimises
\* backward_low + forward_low + (0 if forward-incomplete else N) + (0 if backward-incomplete
\* else N) over the members of c; among the members of equal score it has the smallest
\* forward_tot + backward_tot, and among those equal on both it is the one of smallest
\* index, the last met in the reverse scan
C29_PivotIsBest ==
    LET pivot == find_best_pivot(ess, scc)
    IN /\ DOMAIN pivot = SccComponents(scc)
       /\ \A k \in SccComponents(scc) :
             LET p == pivot[k]
             IN /\ p \in MembersOf(scc, k)
                /\ \A v \in MembersOf(scc, k) :
                      /\ PivotScore(ess, p) <= PivotScore(ess, v)
                      /\ PivotScore(ess, v) = PivotScore(ess, p) =>
                            PivotTot(ess, p) <= PivotTot(ess, v)
                      /\ (PivotScore(ess, v) = PivotScore(ess, p)
                             /\ PivotTot(ess, v) = PivotTot(ess, p)) => p <= v

\* compute() is about to call all_cc_upper_bound, and so find_best_pivot, on bounds where
\* the pivot of a component is not its node of smallest index, one member ties with it on
\* the score and loses on the sum, and another ties with it on both and has a greater index
C29_Witness ==
    /\ LoopChooses(0)
    /\ LET pivot == find_best_pivot(ess, scc)
       IN \E k \in SccComponents(scc) :
             LET p == pivot[k]
             IN /\ \E v \in MembersOf(scc, k) : v < p
                /\ \E v \in MembersOf(scc, k) :
                      PivotScore(ess, v) = PivotScore(ess, p) /\ PivotTot(ess, v) > PivotTot(ess, p)
                /\ \E v \in MembersOf(scc, k) :
                      /\ v > p
                      /\ PivotScore(ess, v) = PivotScore(ess, p)
                      /\ PivotTot(ess, v) = PivotTot(ess, p)

(***************************************************************************)
(* Claims on the radius lock                                               *)
(***************************************************************************)
\* the eccentricities offered to the radius during the step
Offered == [node \in DOMAIN radTask |-> radTask[node].distance]

\* the least of the radius before the step and of the eccentricities offered
LeastOffered == SetMin({radBefore.radius_high} \cup {Offered[node] : node \in DOMAIN Offered})

\* the lock only shrinks, and a callback that is over has not offered less than it holds
LockKeepsTheLeast ==
    /\ radius_lock[1] <= radBefore.radius_high
    /\ \A node \in DOMAIN radTask : radTask[node].pc = "done" => radius_lock[1] <= Offered[node]
    /\ \/ radius_lock = <<radBefore.radius_high, radBefore.radius_vertex>>
       \/ /\ radius_lock[2] \in DOMAIN radTask
          /\ Offered[radius_lock[2]] = radius_lock[1]
          /\ radius_lock[1] < radBefore.radius_high

\* C30: after a backward step or all_cc_upper_bound, under every interleaving of the
\* workers, radius_high is the least of its value before and of the eccentricities offered
\* during the step, and radius_vertex is a node that offered that least value, both being
\* unchanged when no offer is smaller: between the test under the read lock and the test
\* made again under the write lock the least offer is never lost, and a larger one never
\* overwrites a smaller one
C30_RadiusIsLeastOffered ==
    /\ [](radPc # "idle" =>
            /\ LockKeepsTheLeast
            /\ radPc = "joined" =>
                  /\ radSelf.radius_high = LeastOffered
                  /\ IF LeastOffered < radBefore.radius_high
                     THEN /\ radSelf.radius_vertex \in DOMAIN radTask
                          /\ Offered[radSelf.radius_vertex] = LeastOffered
                     ELSE radSelf = radBefore
                  /\ <<radSelf.radius_high, radSelf.radius_vertex>>
                        \in RadiusOutcomes(radBefore, Offered))
    /\ [][radPc # "idle" => radius_lock'[1] <= radius_lock[1]]_vars

\* the step is over: two nodes offered the least eccentricity and the one of greater index
\* holds the radius, and a node that offered more had passed the test under the read lock
C30_Witness ==
    /\ radPc = "joined"
    /\ radSelf.radius_high < radBefore.radius_high
    /\ \E v \in DOMAIN radTask :
          /\ v < radSelf.radius_vertex
          /\ Offered[v] = radSelf.radius_high
          /\ radTask[v].update_radius
    /\ \E u \in DOMAIN radTask : radTask[u].update_radius /\ Offered[u] > radSelf.radius_high

(***************************************************************************)
(* Claims on the size and the content of the registers                     *)
(***************************************************************************)
\* C31: register_size_from_number_of_elements(n) is max(5, ceil(log2(log2(n)))) for every
\* upper bound n >= 1 of a machine word, so that 2^(2^r) >= n: here n = 2^e, so that the
\* size r is max(5, ceil(log2(e))) and 2^r >= e
C31_RegisterSizeIsLogLog ==
    (hllBuilder.pc = "consumed" /\ hllBuilder.built.result = "Ok") =>
        LET e == hllBuilder.num_elements
            r == hllBuilder.built.register_size
        IN /\ r = Max2(5, CeilLog2(e))
           /\ 2 ^ r >= e

\* on the upper bounds up to 2^32 the size is the one claimed
RegisterSizeIsLogLogUpTo32 ==
    (hllBuilder.pc = "consumed" /\ hllBuilder.built.result = "Ok"
        /\ hllBuilder.num_elements <= 32) =>
        LET e == hllBuilder.num_elements
            r == hllBuilder.built.register_size
        IN r = Max2(5, CeilLog2(e)) /\ 2 ^ r >= e

\* for every upper bound of a machine word the size is 5
RegisterSizeIsFive ==
    (hllBuilder.pc = "consumed" /\ hllBuilder.built.result = "Ok") =>
        hllBuilder.built.register_size = 5

\* C32: for every 64-bit hash h and every register size r that build produces, add computes
\* the register j = h mod m < m and the candidate v = trailing_zeros((h >> p) | sentinel) + 1
\* with sentinel = 1 << (2^r - 2), so that 1 <= v <= 2^r - 1: the value stored fits in r
\* bits, and the shift of the sentinel is within the 64 bits of the hash
C32_CandidateFitsRegister ==
    hllBuilder.pc = "added" =>
        LET a == hllBuilder.built
            x == hllBuilder.added.hash
            j == hllBuilder.added.register
            v == hllBuilder.added.candidate_value
            rest == {b - a.log_2_num_registers : b \in {c \in x : c >= a.log_2_num_registers}}
        IN /\ a.sentinel_shift = (2 ^ a.register_size) - 2
           /\ a.sentinel_shift < HashBits
           /\ j < a.num_registers
           /\ \A b \in 0 .. MaxLog2NumRegisters :
                 2 ^ b < a.num_registers => ((j \div (2 ^ b)) % 2 = 1 <=> b \in x)
           /\ v = 1 + SetMin(rest \cup {a.sentinel_shift})
           /\ 1 <= v
           /\ v <= (2 ^ a.register_size) - 1

\* an element was added whose hash has its lowest bit above the registers' at the place of
\* the sentinel or higher: the candidate is the greatest a register holds
C32_Witness ==
    /\ hllBuilder.pc = "added"
    /\ hllBuilder.added.hash = {39}
    /\ hllBuilder.built.log_2_num_registers = 8
    /\ hllBuilder.added.candidate_value = (2 ^ hllBuilder.built.register_size) - 1

(***************************************************************************)
(* Claims on the sequential breadth-first visit                            *)
(***************************************************************************)
\* the nodes returned before position i
ReturnedBefore(i) == {stOut[k].node : k \in 1 .. (i - 1)}

\* the place of node w in the cyclic order of the indices that begins at start
CyclicRank(w) == (w + graph.n - stIter.start) % graph.n

\* the first position whose node has the node of position i among its successors
DiscoveredAt(i) ==
    SetMin({k \in 1 .. Len(stOut) : <<stOut[k].node, stOut[i].node>> \in graph.arcs})

\* the nodes come in breadth-first order: the first is start; a node taken when the queue
\* was empty is the first in cyclic order that was not returned, and no node returned before
\* it has it as a successor; every other node comes after the node that discovered it, these
\* in the order of their discoverers, and not across a restart
BreadthFirstOrder ==
    /\ stOut # <<>> => stOut[1].node = stIter.start /\ stOut[1].restart
    /\ \A i \in 1 .. Len(stOut) :
          IF stOut[i].restart
          THEN /\ \A w \in Nodes(graph) :
                     CyclicRank(w) < CyclicRank(stOut[i].node) => w \in ReturnedBefore(i)
               /\ \A k \in 1 .. (i - 1) : <<stOut[k].node, stOut[i].node>> \notin graph.arcs
          ELSE /\ \E k \in 1 .. (i - 1) : <<stOut[k].node, stOut[i].node>> \in graph.arcs
               /\ \A j \in 1 .. (i - 1) :
                     IF stOut[j].restart THEN j <= DiscoveredAt(i)
                     ELSE DiscoveredAt(j) <= DiscoveredAt(i)

\* C33: iterating SingleThreadedBreadthFirstVisit yields every node of the graph exactly
\* once and then None, and None again on the calls that follow, for every graph and every
\* start < N: the nodes come in breadth-first order from start, and each time the queue is
\* empty the visit begins again from the next node not visited, in the cyclic order of the
\* indices; visit() accumulates N node results
C33_EveryNodeOnceThenNone ==
    /\ [](stPc # "idle" =>
            /\ \A i, j \in 1 .. Len(stOut) : stOut[i].node = stOut[j].node => i = j
            /\ BreadthFirstOrder
            /\ stNones > 0 =>
                  /\ Len(stOut) = graph.n
                  /\ {stOut[i].node : i \in 1 .. Len(stOut)} = Nodes(graph)
            /\ stPc = "returned" => stNones = 1 /\ stResult = graph.n)
    /\ [][(stPc # "idle" /\ stNones > 0) => (stOut' = stOut /\ stNones' = stNones + 1)]_vars

\* None was returned twice after a visit from start 3 that found 1 and 2 and began again
\* from node 0, the cursor having gone round past the last index
C33_Witness ==
    /\ stPc = "iterating"
    /\ stNones = 2
    /\ stIter.start = 3
    /\ Len(stOut) = 4
    /\ stOut[2].node = 1 /\ ~stOut[2].restart
    /\ stOut[3].node = 2 /\ ~stOut[3].restart
    /\ stOut[4].node = 0 /\ stOut[4].restart

\* visit() has returned on a graph of which start reaches no other node
C33_VisitReturned == stPc = "returned" /\ graph.n = 4 /\ graph.arcs = {} /\ stResult = 4

(***************************************************************************)
(* Claims on the order of the components in all_cc_upper_bound             *)
(***************************************************************************)
\* children(c) of every component
Kids == [c \in SccComponents(scc) |-> children(segments_offset, data, c)]

\* what the two loops over the components of all_cc_upper_bound start from and end with
PivotEccentricities ==
    LET pivot == find_best_pivot(ess, scc)
        f == compute_dist_pivot_from_graph(graph, visits.fwdIn, scc, pivot)
        b == compute_dist_pivot_from_graph(graph, visits.bwdIn, scc, pivot)
    IN [pivot |-> pivot, df |-> f.dist_pivot, db |-> b.dist_pivot,
        f0 |-> f.ecc_pivot, b0 |-> b.ecc_pivot,
        f |-> ForwardPass(f.ecc_pivot, 0, scc.num, ess, pivot, f.dist_pivot, b.dist_pivot, Kids),
        b |-> BackwardPass(b.ecc_pivot, scc.num - 1, ess, pivot, f.dist_pivot, b.dist_pivot, Kids)]

DrawnNodes(k) == hbObs.drawn[k][1] .. (hbObs.drawn[k][2] - 1)

\* every thread of the broadcast has left the loop of parallel_task
EveryThreadLeft == \A t \in Threads : hbWorker[t].pc \in {"end", "done"}

\* the chunks drawn so far are not empty and share no position, a chunk of a local
\* iteration is one position of local_checklist, and once every thread has left its loop
\* every position below node_upper_limit is in one chunk
WorkIsPartitioned ==
    /\ \A k \in 1 .. Len(hbObs.drawn) :
          /\ hbObs.drawn[k][1] < hbObs.drawn[k][2]
          /\ hbObs.drawn[k][2] <= node_upper_limit
          /\ hb.local => hbObs.drawn[k][2] = hbObs.drawn[k][1] + 1
    /\ \A j, k \in 1 .. Len(hbObs.drawn) : j < k => DrawnNodes(j) \cap DrawnNodes(k) = {}
    /\ EveryThreadLeft =>
          \A i \in 0 .. (node_upper_limit - 1) :
              Cardinality({k \in 1 .. Len(hbObs.drawn) : i \in DrawnNodes(k)}) = 1

\* C35: in every iteration, for every granularity that the builder accepts and every
\* distribution of the outdegrees, the graph of no arc included, the chunks [start, end)
\* that the threads draw are not empty, are pairwise disjoint and cover [0, N) (the
\* positions of local_checklist, one by one, in a local iteration), so that every node is
\* processed by one thread and every thread leaves its loop
C35_WorkIsPartitioned == hbRun.pc = "parallel" => WorkIsPartitioned

\* the same, with a granularity that is not zero
WorkIsPartitionedAboveZero ==
    (hbRun.pc = "parallel" /\ hb.granularity > 0) => WorkIsPartitioned

\* the threads of a non-local iteration have drawn an empty chunk MaxDraws times and the
\* cursor is where it was
EmptyChunksForEver ==
    /\ hbRun.pc = "parallel"
    /\ ~hb.local
    /\ hb.granularity = 0
    /\ Len(hbObs.drawn) = MaxDraws
    /\ \A k \in 1 .. MaxDraws : hbObs.drawn[k] = <<0, 0>>
    /\ hbCtx.arc_balanced_cursor = <<0, 0>>

\* every thread has left its loop after two chunks of a non-local iteration, on a graph
\* with arcs, and after two of a local one
TwoChunksDrawn ==
    /\ hbRun.pc = "parallel"
    /\ EveryThreadLeft
    /\ Len(hbObs.drawn) >= 2
    /\ num_arcs > 0
    /\ hb.granularity > 0

TwoLocalChunksDrawn == TwoChunksDrawn /\ hb.local

NoArcOneChunk ==
    /\ hbRun.pc = "parallel"
    /\ EveryThreadLeft
    /\ num_arcs = 0
    /\ hbObs.drawn = <<(<<0, graph.n>>)>>

(***************************************************************************)
(* Claims on compute_dist_pivot_from_graph                                 *)
(***************************************************************************)
\* the nodes that k arcs or fewer reach from p without leaving its component
RECURSIVE BallWithin(_, _)
BallWithin(p, k) ==
    IF k = 0 THEN {p}
    ELSE LET B == BallWithin(p, k - 1)
         IN B \cup {a[2] : a \in {b \in graph.arcs : b[1] \in B /\ scc.comp[b[2]] = scc.comp[p]}}

\* the distance from p to v inside the component of both
DistWithin(p, v) == SetMin({k \in 0 .. graph.n : v \in BallWithin(p, k)})

\* the broadcast is over: every thread has left its loop
BroadcastOver == \A t \in Threads : dpWorker[t].pc = "done"

\* C36: under every interleaving of the threads of the broadcast no pivot index is drawn
\* twice and no node has dist_pivot written twice, and when the broadcast is over every
\* pivot index was drawn once, dist_pivot was written once at every node v, with the
\* distance to v from the pivot of its component inside the component, and ecc_pivot of
\* a component is the greatest of those distances over the component
C36_DistPivotOnceAndExact ==
    /\ \A k \in SccComponents(scc) : dpObs.claims[k] <= 1
    /\ \A v \in Nodes(graph) : dpObs.writes[v] <= 1
    /\ BroadcastOver =>
          /\ \A k \in SccComponents(scc) : dpObs.claims[k] = 1
          /\ \A v \in Nodes(graph) :
                /\ dpObs.writes[v] = 1
                /\ dpDist[v] = DistWithin(dpPivot[scc.comp[v]], v)
          /\ \A k \in SccComponents(scc) :
                dpEcc[k] = SetMax({DistWithin(dpPivot[k], v) :
                                      v \in {w \in Nodes(graph) : scc.comp[w] = k}})

\* the broadcast is over on a graph of two components or more where both threads made a
\* visit, and in a component a node at distance 1 from the pivot got its callback after
\* another at distance 1 while a third is at distance 2
C36_Witness ==
    /\ BroadcastOver
    /\ scc.num >= 2
    /\ \A t \in Threads : dpWorker[t].visited # {}
    /\ \E k \in SccComponents(scc) :
          /\ dpEcc[k] = 2
          /\ Cardinality({v \in Nodes(graph) : scc.comp[v] = k /\ dpDist[v] = 1}) = 2

(***************************************************************************)
(* Claims on the missing nodes and on the bounds across the main loop      *)
(***************************************************************************)
\* a round of the main loop is made by the step
RoundOfMainLoop == essPc = "loop" /\ ess'.iterations # ess.iterations

\* no bound moves away from the eccentricity, a complete vertex stays as it is, the radius
\* found does not grow and the diameter found does not shrink
BoundsOnlyTighten ==
    /\ \A v \in Nodes(graph) :
          /\ ess'.forward_low[v] >= ess.forward_low[v]
          /\ ess'.backward_low[v] >= ess.backward_low[v]
          /\ ess'.forward_high[v] <= ess.forward_high[v]
          /\ ess'.backward_high[v] <= ess.backward_high[v]
          /\ ~incomplete_forward(ess, v) =>
                /\ ~incomplete_forward(ess', v)
                /\ ess'.forward_low[v] = ess.forward_low[v]
          /\ ~incomplete_backward(ess, v) =>
                /\ ~incomplete_backward(ess', v)
                /\ ess'.backward_low[v] = ess.backward_low[v]
    /\ ess'.radius_high <= ess.radius_high
    /\ ess'.diameter_low >= ess.diameter_low

\* the score that the round gives to its move is old_missing_nodes - missing_nodes, and
\* the subtraction does not go below zero
ScoreIsTheDrop ==
    /\ missing_nodes' <= missing_nodes
    /\ points'[argmax(points)] = <<missing_nodes - missing_nodes', 1>>
    /\ points'[argmax(points)][1] >= 0

\* C37: in every round of the main loop, whatever the output asked for, missing_nodes does
\* not grow: the lower bounds do not decrease, the upper bounds do not increase, a complete
\* vertex stays complete with its value, radius_high does not grow and diameter_low does
\* not shrink; so old_missing_nodes - missing_nodes, the score of the move, never underflows
C37_MissingNodesNeverGrow ==
    [][RoundOfMainLoop => (BoundsOnlyTighten /\ ScoreIsTheDrop)]_vars

\* the rounds before left a vertex complete and some nodes missing, and the round just made
\* was an all_cc_upper_bound that lowered an upper bound and the missing nodes
C37_Witness ==
    /\ essPc = "loop"
    /\ last.move = 0
    /\ points[0][1] > 0
    /\ missing_nodes > 0
    /\ \E v \in Nodes(graph) : ~incomplete_forward(ess, v)
    /\ \E v \in Nodes(graph) : incomplete_forward(ess, v) /\ ess.forward_high[v] < graph.n

(***************************************************************************)
(* Claims on what the stopping tests of the diameter and of the radius     *)
(* rest on                                                                 *)
(***************************************************************************)
\* radius_high has been set: it is no longer usize::MAX
RadiusIsSet == ess.radius_high # usize_MAX

\* C38: after every step of ExactSumSweep no lower bound, forward or backward, is above
\* diameter_low, and once radius_high is set radius_vertex is a radial vertex whose
\* forward bounds are both radius_high
C38_StoppingTestsAreSound ==
    /\ \A v \in Nodes(graph) :
          /\ ess.forward_low[v] <= ess.diameter_low
          /\ ess.backward_low[v] <= ess.diameter_low
    /\ RadiusIsSet =>
          /\ ess.radial_vertices[ess.radius_vertex]
          /\ ess.forward_low[ess.radius_vertex] = ess.radius_high
          /\ ess.forward_high[ess.radius_vertex] = ess.radius_high

\* the radius is set, on a vertex that is not complete backward, and the forward lower
\* bound of another vertex, not yet complete, has reached diameter_low
C38_Witness ==
    /\ essPc \in {"heuristic", "loop"}
    /\ RadiusIsSet
    /\ ess.backward_low[ess.radius_vertex] # ess.backward_high[ess.radius_vertex]
    /\ \E v \in Nodes(graph) :
          /\ v # ess.radius_vertex
          /\ incomplete_forward(ess, v)
          /\ ess.forward_low[v] = ess.diameter_low
          /\ ess.diameter_low > 0

(***************************************************************************)
(* Claims on merge_unsafe of an uncached counter that starts inside a word *)
(***************************************************************************)
\* the last call is a merge_unsafe on a counter that was not cached and whose registers
\* do not start at a word boundary
MergeUnsafeOnUnaligned ==
    /\ hllCall.op = "merge_unsafe"
    /\ ~Counter_is_cached(hllCall.counter[hllCall.self])
    /\ ~is_aligned(hllCall.counter[hllCall.self])

\* a register of other was above that of self before the call
OtherWasAbove == \E i \in 0 .. (NumRegisters - 1) : OtherBefore[i] > SelfBefore[i]

\* a merge that changes nothing leaves the backend as it was and self uncached
UnchangingMergeLeavesBackend ==
    (MergeUnsafeOnUnaligned /\ ~OtherWasAbove) =>
        /\ ~hllCall.panic
        /\ hllCall.ret = <<FALSE>>
        /\ hllBits = hllCall.bits
        /\ ~Counter_is_cached(hllCounter[hllCall.self])

\* a merge that changes a register writes the maxima to the backend of self, returns true
\* and leaves self uncached
ChangingMergeWritesBackend ==
    (MergeUnsafeOnUnaligned /\ OtherWasAbove) =>
        /\ ~hllCall.panic
        /\ hllCall.ret = <<TRUE>>
        /\ ~Counter_is_cached(hllCounter[hllCall.self])
        /\ \A i \in 0 .. (NumRegisters - 1) : SelfNow[i] = Max2(SelfBefore[i], OtherBefore[i])

\* C40: merge_unsafe does not panic on counters of arrays with the same parameters; on a
\* self that is not cached and does not start at a word boundary, a merge that changes a
\* register writes the merged registers to the backend of self, returns true and leaves
\* self uncached, and a merge that changes nothing leaves the backend untouched and self
\* uncached
C40_MergeUnsafeOnUnalignedSelf ==
    /\ hllCall.op = "merge_unsafe" => ~hllCall.panic
    /\ ChangingMergeWritesBackend
    /\ UnchangingMergeLeavesBackend

\* merge_unsafe on an uncached self inside a word, with a register of other above, has
\* panicked and the backend is as it was
UnalignedChangingMergePanicked ==
    /\ MergeUnsafeOnUnaligned
    /\ OtherWasAbove
    /\ hllCall.panic
    /\ hllBits = hllCall.bits

UnalignedUnchangingMergeReturned ==
    /\ MergeUnsafeOnUnaligned
    /\ ~OtherWasAbove
    /\ hllCall.ret = <<FALSE>>

(***************************************************************************)
(* Claims on the changed flag of a cached counter                          *)
(***************************************************************************)
\* the registers that the backend holds for the counter c
BackendRegisters(B, c) ==
    [i \in 0 .. (NumRegisters - 1) |-> RegisterValue(B[c.array], c.index * NumRegisters + i)]

\* the counter c is cached and a register of its cache is not what its backend holds
ChangePending(B, c) == Counter_is_cached(c) /\ CounterRegisters(B, c) # BackendRegisters(B, c)

\* no change of the counter c is pending unseen
NoChangeLost(B, c) == ChangePending(B, c) => Counter_is_changed(c)

\* the last call returned and left its counter cached
CallLeftCached ==
    /\ hllCall.op \in {"add", "merge", "merge_unsafe", "clear", "set_to", "sync_to_backend"}
    /\ ~hllCall.panic
    /\ Counter_is_cached(hllCounter[hllCall.self])

\* no call loses a pending change: a call on a counter that had none pending unseen
\* leaves none pending unseen
CallsKeepPendingChange ==
    (CallLeftCached /\ NoChangeLost(hllCall.bits, hllCall.counter[hllCall.self])) =>
        NoChangeLost(hllBits, hllCounter[hllCall.self])

\* set_to on a cached counter leaves the registers of the source in the cache and the
\* changed flag set exactly when the cache differs from the backend of the counter
SetToSetsChanged ==
    (hllCall.op = "set_to" /\ Counter_is_cached(hllCall.counter[hllCall.self])) =>
        /\ ~hllCall.panic
        /\ hllBits = hllCall.bits
        /\ SelfNow = OtherBefore
        /\ Counter_is_changed(hllCounter[hllCall.self])
               <=> ChangePending(hllBits, hllCounter[hllCall.self])

\* C39: on a cached counter that nothing else writes, after any add, merge, merge_unsafe,
\* clear, set_to or commit_changes(true), is_changed() is true whenever the registers of
\* the cache differ from those of the backend of the counter, so that no pending change is
\* lost; set_to on a cached counter copies the registers of the source to the cache and
\* sets changed exactly when the cache differs from the backend region of the counter
C39_PendingChangeIsSeen == CallsKeepPendingChange /\ SetToSetsChanged

\* the same of every call but set_to
OtherCallsKeepPendingChange == hllCall.op # "set_to" => CallsKeepPendingChange

\* set_to on a cached counter has left in the cache registers that the backend does not
\* hold, and is_changed() is false
SetToLostTheChange ==
    /\ hllCall.op = "set_to"
    /\ Counter_is_cached(hllCall.counter[hllCall.self])
    /\ ChangePending(hllBits, hllCounter[hllCall.self])
    /\ ~Counter_is_changed(hllCounter[hllCall.self])

\* a merge_unsafe into a counter just cached: a change is pending and is_changed() is true
PendingChangeSeen ==
    /\ hllCall.op = "merge_unsafe"
    /\ hllCall.prev.op = "cache"
    /\ hllCall.prev.self = hllCall.self
    /\ ChangePending(hllBits, hllCounter[hllCall.self])
    /\ Counter_is_changed(hllCounter[hllCall.self])

====
